---------------------------- MODULE Spec2Model ----------------------------
(***************************************************************************)
(* Verification model of the trading-bot analysis pipeline                 *)
(* (src/bot/analysis): swing detection, market structure, BOS/MSS events,  *)
(* bias, liquidity pools and sweeps, and the SignalEngine orchestration.   *)
(*                                                                         *)
(* Conventions.  Prices are integers in units of 0.0001 (1.1030 is 11030), *)
(* the precision of the repository's own test data, and are compared       *)
(* exactly: the rounding of binary floating point at a difference equal to *)
(* a tolerance or a threshold is not modelled.  A quotient of two prices   *)
(* is kept exact as a Ratio.  Timestamps are integers in seconds.  Python  *)
(* lists are sequences; Python's 0-based index i is element i+1 of the     *)
(* sequence (operator At).  Python's None is the value None.               *)
(***************************************************************************)
EXTENDS Integers, Sequences, FiniteSets, TLC

VARIABLES
    lookback,       \* SwingDetector.lookback
    step,           \* seconds between two consecutive candles of the feed
    newest_first,   \* TRUE: the feed is ordered newest first (index 0 = latest)
    candles,        \* the candle list handed to the detectors
    pc,             \* which operation has been called on the candles
    swings,         \* result of detect_swings
    structure,      \* result of analyze_structure
    events,         \* result of detect_bos_mss
    bias,           \* result of get_bias: <<bias, event or None>>
    pools,          \* result of find_liquidity_pools
    sweeps,         \* result of detect_sweeps
    enabled,        \* AIVerifier.enabled
    stage,          \* the await at which the analyze_symbol call stands
    candles_4h,     \* locals of analyze_symbol: the three fetched lists
    candles_30m,
    candles_5m,
    locals,         \* the locals of analyze_symbol at the call of verify_signal
    stages_run,     \* bookkeeping: the detector stages the call has run
    thrown,         \* bookkeeping: the exceptions thrown during the call
    result,         \* what analyze_symbol gave its caller (None: still running)
    returned,       \* what a detector called on its own returned
    tasks           \* analyze_symbol calls running concurrently on one engine

feed == <<lookback, step, newest_first, candles>>

detectors == <<lookback, step, newest_first, candles, pc, swings, structure, events,
               bias, pools, sweeps>>

engine == <<enabled, stage, candles_4h, candles_30m, candles_5m, locals, stages_run,
            thrown, result>>

vars == <<detectors, engine, returned, tasks>>

None == [none |-> TRUE]

\* An Optional[...] field holding a value (None is the other case).
Some(v) == [none |-> FALSE, value |-> v]

(***************************************************************************)
(* Generic helpers                                                         *)
(***************************************************************************)
At(s, i) == s[i + 1]

Abs(x) == IF x < 0 THEN -x ELSE x

Min(a, b) == IF a < b THEN a ELSE b

Max(a, b) == IF a > b THEN a ELSE b

RECURSIVE Reverse(_)
Reverse(s) == IF s = <<>> THEN <<>> ELSE Append(Reverse(Tail(s)), Head(s))

RECURSIVE Flatten(_)
Flatten(ss) == IF ss = <<>> THEN <<>> ELSE Head(ss) \o Flatten(Tail(ss))

Take(s, n) == SubSeq(s, 1, Min(n, Len(s)))

\* list.sort(key=lambda x: x.timestamp, reverse=True): a stable sort, so
\* elements with equal keys keep their relative order.  InsertDesc puts x
\* after every element whose timestamp is >= x's.
RECURSIVE InsertDesc(_, _)
InsertDesc(sorted, x) ==
    IF sorted = <<>> THEN <<x>>
    ELSE IF Head(sorted).timestamp >= x.timestamp
         THEN <<Head(sorted)>> \o InsertDesc(Tail(sorted), x)
         ELSE <<x>> \o sorted

RECURSIVE SortDescFrom(_, _)
SortDescFrom(acc, rest) ==
    IF rest = <<>> THEN acc
    ELSE SortDescFrom(InsertDesc(acc, Head(rest)), Tail(rest))

\* Mutant of SortByTimestampDesc: the list is left in scan order.
KeepScanOrder(s) == s

SortByTimestampDesc(s) == SortDescFrom(<<>>, s)

\* max(xs, key=lambda x: x.timestamp): the first element with the greatest key.
RECURSIVE MaxByTimestampFrom(_, _)
MaxByTimestampFrom(best, rest) ==
    IF rest = <<>> THEN best
    ELSE MaxByTimestampFrom(
             IF Head(rest).timestamp > best.timestamp THEN Head(rest) ELSE best,
             Tail(rest))

MaxByTimestamp(xs) == IF xs = <<>> THEN None ELSE MaxByTimestampFrom(Head(xs), Tail(xs))

(***************************************************************************)
(* Candle (src/bot/providers/base.py)                                      *)
(***************************************************************************)
Candle(t, o, h, l, c) ==
    [timestamp |-> t, open |-> o, high |-> h, low |-> l, close |-> c]

\* A bar is a candle without its timestamp: <<open, high, low, close>>.
Bar(o, h, l, c) == <<o, h, l, c>>

Stamp(bar, t) == Candle(t, bar[1], bar[2], bar[3], bar[4])

(***************************************************************************)
(* SwingDetector (src/bot/analysis/swings.py)                              *)
(***************************************************************************)
SwingPoint(c, isHigh, i) ==
    [timestamp |-> c.timestamp,
     price |-> IF isHigh THEN c.high ELSE c.low,
     is_high |-> isHigh,
     candle_index |-> i]

\* for j in range(i - lookback, i + lookback + 1):
\*     if j != i and candles[j].high >= current.high: is_swing_high = False
RECURSIVE HighScan(_, _, _, _)
HighScan(cs, i, j, last) ==
    IF j > last THEN TRUE
    ELSE IF j # i /\ At(cs, j).high >= At(cs, i).high THEN FALSE
    ELSE HighScan(cs, i, j + 1, last)

\* Mutant of IsSwingHigh: a high equal to another high of the window still
\* counts (the comparison is > instead of >=).
IsSwingHighAllowingTies(cs, lb, i) ==
    \A j \in (i - lb)..(i + lb) : ~(j # i /\ At(cs, j).high > At(cs, i).high)

IsSwingHigh(cs, lb, i) == HighScan(cs, i, i - lb, i + lb)

RECURSIVE LowScan(_, _, _, _)
LowScan(cs, i, j, last) ==
    IF j > last THEN TRUE
    ELSE IF j # i /\ At(cs, j).low <= At(cs, i).low THEN FALSE
    ELSE LowScan(cs, i, j + 1, last)

IsSwingLow(cs, lb, i) == LowScan(cs, i, i - lb, i + lb)

\* for i in range(lookback, len(candles) - lookback): high first, then low
RECURSIVE SwingsFrom(_, _, _)
SwingsFrom(cs, lb, i) ==
    IF i >= Len(cs) - lb THEN <<>>
    ELSE (IF IsSwingHigh(cs, lb, i) THEN <<SwingPoint(At(cs, i), TRUE, i)>> ELSE <<>>)
         \o (IF IsSwingLow(cs, lb, i) THEN <<SwingPoint(At(cs, i), FALSE, i)>> ELSE <<>>)
         \o SwingsFrom(cs, lb, i + 1)

DetectSwings(cs, lb) ==
    IF Len(cs) < lb * 2 + 1 THEN <<>> ELSE SwingsFrom(cs, lb, lb)

IsHighSwing(s) == s.is_high

IsLowSwing(s) == ~s.is_high

\* Compare consecutive swing points: the later one is "higher" when its
\* price is strictly greater, "lower" otherwise.
RECURSIVE Higher(_, _)
Higher(xs, k) ==
    IF k > Len(xs) THEN <<>>
    ELSE (IF xs[k].price > xs[k - 1].price THEN <<xs[k]>> ELSE <<>>) \o Higher(xs, k + 1)

RECURSIVE Lower(_, _)
Lower(xs, k) ==
    IF k > Len(xs) THEN <<>>
    ELSE (IF xs[k].price > xs[k - 1].price THEN <<>> ELSE <<xs[k]>>) \o Lower(xs, k + 1)

\* Mutant of Trend: lower highs and lower lows are tested first.
TrendDownFirst(hh, hl, lh, ll) ==
    IF Len(lh) > 0 /\ Len(ll) > 0 THEN "downtrend"
    ELSE IF Len(hh) > 0 /\ Len(hl) > 0 THEN "uptrend"
    ELSE "sideways"

Trend(hh, hl, lh, ll) ==
    IF Len(hh) > 0 /\ Len(hl) > 0 THEN "uptrend"
    ELSE IF Len(lh) > 0 /\ Len(ll) > 0 THEN "downtrend"
    ELSE "sideways"

MarketStructure(t, lsh, lsl, hh, hl, lh, ll) ==
    [trend |-> t, last_swing_high |-> lsh, last_swing_low |-> lsl,
     higher_highs |-> hh, higher_lows |-> hl, lower_highs |-> lh, lower_lows |-> ll]

AnalyzeStructure(cs, lb) ==
    LET sw == DetectSwings(cs, lb) IN
    IF sw = <<>>
    THEN MarketStructure("sideways", None, None, <<>>, <<>>, <<>>, <<>>)
    ELSE LET swing_highs == SelectSeq(sw, IsHighSwing)
             swing_lows == SelectSeq(sw, IsLowSwing)
             hh == Higher(swing_highs, 2)
             lh == Lower(swing_highs, 2)
             hl == Higher(swing_lows, 2)
             ll == Lower(swing_lows, 2)
         IN MarketStructure(Trend(hh, hl, lh, ll),
                            MaxByTimestamp(swing_highs), MaxByTimestamp(swing_lows),
                            hh, hl, lh, ll)

(***************************************************************************)
(* StructureAnalyzer (src/bot/analysis/structure.py)                       *)
(***************************************************************************)
\* Minimum number of candles detect_bos_mss analyses.
MIN_CANDLES == 20

\* Candles at an index below this are skipped by both scans.
SKIP_CANDLES == 10

\* Two BOS events of one type less than this many seconds apart are one event.
DEDUP_SECONDS == 3600

\* Maximum number of events detect_bos_mss returns.
MAX_EVENTS == 5

\* BOSMSSResult.confidence, in hundredths: the default 1.0 and the MSS 0.8.
DEFAULT_CONFIDENCE == 100

MSS_CONFIDENCE == 80

BOSMSSResult(type, c, level, i, conf) ==
    [event_type |-> type, timestamp |-> c.timestamp, price |-> c.close,
     swing_level |-> level, candle_index |-> i, confidence |-> conf]

\* is_new: no recorded event of this type within DEDUP_SECONDS of the candle
IsNew(results, type, c) ==
    \A k \in 1..Len(results) :
        ~(results[k].event_type = type
          /\ Abs(results[k].timestamp - c.timestamp) < DEDUP_SECONDS)

BosUpTrends == {"uptrend", "sideways"}

BosDownTrends == {"downtrend", "sideways"}

\* Mutant of BosUpAt: the trend is not consulted.
BosUpAtAnyTrend(st, c, i, results) ==
    /\ st.last_swing_high # None
    /\ c.close > st.last_swing_high.price
    /\ i > st.last_swing_high.candle_index
    /\ IsNew(results, "BOS_UP", c)

BosUpAt(st, c, i, results) ==
    /\ st.last_swing_high # None
    /\ st.trend \in BosUpTrends
    /\ c.close > st.last_swing_high.price
    /\ i > st.last_swing_high.candle_index
    /\ IsNew(results, "BOS_UP", c)

\* Mutant of BosDownAt: candles before the swing low count as breaks of it.
BosDownAtAnyIndex(st, c, i, results) ==
    /\ st.last_swing_low # None
    /\ st.trend \in BosDownTrends
    /\ c.close < st.last_swing_low.price
    /\ IsNew(results, "BOS_DOWN", c)

BosDownAt(st, c, i, results) ==
    /\ st.last_swing_low # None
    /\ st.trend \in BosDownTrends
    /\ c.close < st.last_swing_low.price
    /\ i > st.last_swing_low.candle_index
    /\ IsNew(results, "BOS_DOWN", c)

\* First loop: for i, candle in enumerate(candles), BOS_UP then BOS_DOWN.
RECURSIVE BosScan(_, _, _, _)
BosScan(cs, st, i, results) ==
    IF i >= Len(cs) THEN results
    ELSE IF i < SKIP_CANDLES THEN BosScan(cs, st, i + 1, results)
    ELSE LET c == At(cs, i)
             r1 == IF BosUpAt(st, c, i, results)
                   THEN Append(results,
                               BOSMSSResult("BOS_UP", c, st.last_swing_high.price, i,
                                            DEFAULT_CONFIDENCE))
                   ELSE results
             r2 == IF BosDownAt(st, c, i, r1)
                   THEN Append(r1,
                               BOSMSSResult("BOS_DOWN", c, st.last_swing_low.price, i,
                                            DEFAULT_CONFIDENCE))
                   ELSE r1
         IN BosScan(cs, st, i + 1, r2)

\* Mutant of MssUpAt: one lower low is enough.
MssUpAtOneLowerLow(st, c, i) ==
    /\ st.trend = "downtrend"
    /\ st.last_swing_low # None
    /\ c.close > st.last_swing_low.price
    /\ i > st.last_swing_low.candle_index
    /\ Len(st.lower_lows) >= 1

MssUpAt(st, c, i) ==
    /\ st.trend = "downtrend"
    /\ st.last_swing_low # None
    /\ c.close > st.last_swing_low.price
    /\ i > st.last_swing_low.candle_index
    /\ Len(st.lower_lows) >= 2

MssDownAt(st, c, i) ==
    /\ st.trend = "uptrend"
    /\ st.last_swing_high # None
    /\ c.close < st.last_swing_high.price
    /\ i > st.last_swing_high.candle_index
    /\ Len(st.higher_highs) >= 2

\* Second loop: MSS_UP then MSS_DOWN, appended to the BOS results.
RECURSIVE MssScan(_, _, _, _)
MssScan(cs, st, i, results) ==
    IF i >= Len(cs) THEN results
    ELSE IF i < SKIP_CANDLES THEN MssScan(cs, st, i + 1, results)
    ELSE LET c == At(cs, i)
             r1 == IF MssUpAt(st, c, i)
                   THEN Append(results,
                               BOSMSSResult("MSS_UP", c, st.last_swing_low.price, i,
                                            MSS_CONFIDENCE))
                   ELSE results
             r2 == IF MssDownAt(st, c, i)
                   THEN Append(r1,
                               BOSMSSResult("MSS_DOWN", c, st.last_swing_high.price, i,
                                            MSS_CONFIDENCE))
                   ELSE r1
         IN MssScan(cs, st, i + 1, r2)

\* Every event the two loops record, before the sort and the cap.
AllBosMss(cs, lb) ==
    LET st == AnalyzeStructure(cs, lb)
    IN MssScan(cs, st, 0, BosScan(cs, st, 0, <<>>))

\* Mutant of DetectBosMss: no minimum number of candles.
DetectBosMssAnyLength(cs, lb) ==
    IF DetectSwings(cs, lb) = <<>> THEN <<>>
    ELSE Take(SortByTimestampDesc(AllBosMss(cs, lb)), MAX_EVENTS)

DetectBosMss(cs, lb) ==
    IF Len(cs) < MIN_CANDLES THEN <<>>
    ELSE IF DetectSwings(cs, lb) = <<>> THEN <<>>
    ELSE Take(SortByTimestampDesc(AllBosMss(cs, lb)), MAX_EVENTS)

LongEvents == {"BOS_UP", "MSS_UP"}

ShortEvents == {"BOS_DOWN", "MSS_DOWN"}

BiasOf(latest_event) ==
    IF latest_event.event_type \in LongEvents THEN <<"LONG", latest_event>>
    ELSE IF latest_event.event_type \in ShortEvents THEN <<"SHORT", latest_event>>
    ELSE <<"NEUTRAL", None>>

GetBias(cs, lb) ==
    LET evs == DetectBosMss(cs, lb)
    IN IF evs = <<>> THEN <<"NEUTRAL", None>> ELSE BiasOf(evs[1])

(***************************************************************************)
(* LiquidityDetector (src/bot/analysis/liquidity.py)                       *)
(***************************************************************************)
\* Config.LIQUIDITY_TOLERANCE = 0.0005, in units of 0.0001.
LIQUIDITY_TOLERANCE == 5

\* candles[:20]: the window of the range extremes.
RANGE_WINDOW == 20

\* range(i, min(i + 5, len(candles))): the candles searched for a rejection.
SWEEP_LOOKAHEAD == 5

\* sweeps[:10]
MAX_SWEEPS == 10

LiquidityPool(level, touches, type, strength) ==
    [price_level |-> level, touches |-> touches, pool_type |-> type,
     strength |-> strength]

\* Mutant of AddTouch: the touch joins every group within the tolerance.
RECURSIVE AddTouchEveryGroup(_, _, _)
AddTouchEveryGroup(groups, value, touch) ==
    IF groups = <<>> THEN << <<value, <<touch>> >> >>
    ELSE IF Abs(value - Head(groups)[1]) <= LIQUIDITY_TOLERANCE
         THEN << <<Head(groups)[1], Append(Head(groups)[2], touch)>> >>
              \o (IF \E k \in DOMAIN Tail(groups) :
                         Abs(value - Tail(groups)[k][1]) <= LIQUIDITY_TOLERANCE
                  THEN AddTouchEveryGroup(Tail(groups), value, touch)
                  ELSE Tail(groups))
         ELSE <<Head(groups)>> \o AddTouchEveryGroup(Tail(groups), value, touch)

\* One step of the greedy grouping: the touch joins the first group (in
\* insertion order) whose key is within the tolerance of the value, else it
\* starts a new group keyed by the value.  A group is <<key, touches>>.
RECURSIVE AddTouch(_, _, _)
AddTouch(groups, value, touch) ==
    IF groups = <<>> THEN << <<value, <<touch>> >> >>
    ELSE IF Abs(value - Head(groups)[1]) <= LIQUIDITY_TOLERANCE
         THEN << <<Head(groups)[1], Append(Head(groups)[2], touch)>> >> \o Tail(groups)
         ELSE <<Head(groups)>> \o AddTouch(Tail(groups), value, touch)

RECURSIVE GroupHighs(_, _, _)
GroupHighs(cs, i, groups) ==
    IF i >= Len(cs) THEN groups
    ELSE GroupHighs(cs, i + 1,
                    AddTouch(groups, At(cs, i).high, <<At(cs, i).timestamp, i>>))

RECURSIVE GroupLows(_, _, _)
GroupLows(cs, i, groups) ==
    IF i >= Len(cs) THEN groups
    ELSE GroupLows(cs, i + 1,
                   AddTouch(groups, At(cs, i).low, <<At(cs, i).timestamp, i>>))

\* Groups with at least 2 touches become pools, strength = number of touches.
RECURSIVE EqualPools(_, _)
EqualPools(groups, type) ==
    IF groups = <<>> THEN <<>>
    ELSE (IF Len(Head(groups)[2]) >= 2
          THEN <<LiquidityPool(Head(groups)[1], Head(groups)[2], type,
                               Len(Head(groups)[2]))>>
          ELSE <<>>)
         \o EqualPools(Tail(groups), type)

RECURSIVE MaxHigh(_)
MaxHigh(cs) ==
    IF Len(cs) = 1 THEN cs[1].high ELSE Max(cs[1].high, MaxHigh(Tail(cs)))

RECURSIVE MinLow(_)
MinLow(cs) ==
    IF Len(cs) = 1 THEN cs[1].low ELSE Min(cs[1].low, MinLow(Tail(cs)))

\* [(c.timestamp, i) for i, c in enumerate(recent) if c in near]
RECURSIVE TouchesIn(_, _, _)
TouchesIn(recent, near, i) ==
    IF i >= Len(recent) THEN <<>>
    ELSE (IF \E k \in 1..Len(near) : near[k] = At(recent, i)
          THEN << <<At(recent, i).timestamp, i>> >>
          ELSE <<>>)
         \o TouchesIn(recent, near, i + 1)

RangePools(cs) ==
    IF Len(cs) < RANGE_WINDOW THEN <<>>
    ELSE LET recent == SubSeq(cs, 1, RANGE_WINDOW)
             range_high == MaxHigh(recent)
             range_low == MinLow(recent)
             NearHigh(c) == Abs(c.high - range_high) <= LIQUIDITY_TOLERANCE
             NearLow(c) == Abs(c.low - range_low) <= LIQUIDITY_TOLERANCE
             high_candles == SelectSeq(recent, NearHigh)
             low_candles == SelectSeq(recent, NearLow)
         IN (IF Len(high_candles) >= 1
             THEN <<LiquidityPool(range_high, TouchesIn(recent, high_candles, 0),
                                  "RANGE_HIGH", 1)>>
             ELSE <<>>)
            \o (IF Len(low_candles) >= 1
                THEN <<LiquidityPool(range_low, TouchesIn(recent, low_candles, 0),
                                     "RANGE_LOW", 1)>>
                ELSE <<>>)

FindLiquidityPools(cs) ==
    EqualPools(GroupHighs(cs, 0, <<>>), "EQUAL_HIGHS")
    \o EqualPools(GroupLows(cs, 0, <<>>), "EQUAL_LOWS")
    \o RangePools(cs)

LowPools == {"EQUAL_LOWS", "RANGE_LOW"}

HighPools == {"EQUAL_HIGHS", "RANGE_HIGH"}

\* max(pool.touches, key=lambda x: x[1])[1]
RECURSIVE LatestTouchIndexFrom(_, _)
LatestTouchIndexFrom(best, rest) ==
    IF rest = <<>> THEN best
    ELSE LatestTouchIndexFrom(Max(best, Head(rest)[2]), Tail(rest))

\* Mutant of LatestTouchIndex: the first touch instead of the latest.
FirstTouchIndex(pool) == Head(pool.touches)[2]

LatestTouchIndex(pool) ==
    LatestTouchIndexFrom(Head(pool.touches)[2], Tail(pool.touches))

\* LiquiditySweep.  pool_index (the position of the swept pool in the pools
\* argument) and pierce_index (the index of the candle that supplied
\* sweep_price) are bookkeeping of the model: the code's object does not
\* keep them and never reads them.
LiquiditySweep(cs, pool, p, i, j) ==
    [timestamp |-> At(cs, j).timestamp,
     sweep_price |-> IF pool.pool_type \in LowPools THEN At(cs, i).low ELSE At(cs, i).high,
     pool_price |-> pool.price_level,
     pool_type |-> pool.pool_type,
     is_swept_up |-> pool.pool_type \in LowPools,
     is_swept_down |-> pool.pool_type \notin LowPools,
     rejection_price |-> At(cs, j).close,
     candle_index |-> j,
     proximity_to_poi |-> None,
     pool_index |-> p,
     pierce_index |-> i]

Pierces(pool, c) ==
    IF pool.pool_type \in LowPools THEN c.low < pool.price_level
    ELSE pool.pool_type \in HighPools /\ c.high > pool.price_level

Rejects(pool, c) ==
    IF pool.pool_type \in LowPools THEN c.close > pool.price_level
    ELSE c.close < pool.price_level

\* for j in range(...): the first rejecting candle, or -1 when none.
RECURSIVE RejectionFrom(_, _, _, _)
RejectionFrom(cs, pool, j, stop) ==
    IF j >= stop THEN -1
    ELSE IF Rejects(pool, At(cs, j)) THEN j
    ELSE RejectionFrom(cs, pool, j + 1, stop)

\* for i in range(latest_touch_index + 1, len(candles)): every piercing
\* candle with a rejection in its lookahead appends a sweep.
RECURSIVE SweepsOfPool(_, _, _, _)
SweepsOfPool(cs, pool, p, i) ==
    IF i >= Len(cs) THEN <<>>
    ELSE LET j == IF Pierces(pool, At(cs, i))
                  THEN RejectionFrom(cs, pool, i,
                                     Min(i + SWEEP_LOOKAHEAD, Len(cs)))
                  ELSE -1
         IN (IF j >= 0 THEN <<LiquiditySweep(cs, pool, p, i, j)>> ELSE <<>>)
            \o SweepsOfPool(cs, pool, p, i + 1)

RECURSIVE SweepsFrom(_, _, _)
SweepsFrom(cs, ps, p) ==
    IF p > Len(ps) THEN <<>>
    ELSE SweepsOfPool(cs, ps[p], p - 1, LatestTouchIndex(ps[p]) + 1)
         \o SweepsFrom(cs, ps, p + 1)

DetectSweeps(cs, ps) == Take(SortByTimestampDesc(SweepsFrom(cs, ps, 1)), MAX_SWEEPS)

(***************************************************************************)
(* Exceptions and ratios                                                   *)
(***************************************************************************)
\* The outcome of a call that can raise: its return value, or the exception.
Returned(v) == [raised |-> FALSE, value |-> v]

Raised(type, message) == [raised |-> TRUE, type |-> type, message |-> message]

\* A float quotient of two prices, kept exact as numerator and denominator.
Ratio(n, d) == [num |-> n, den |-> d]

\* The float 1.0
ONE == Ratio(1, 1)

\* r > n / d, for positive denominators
RatioGt(r, n, d) == r.num * d > n * r.den

RatioLt(r, n, d) == r.num * d < n * r.den

\* a > b
RatioGreater(a, b) == a.num * b.den > b.num * a.den

\* x / y on floats: ZeroDivisionError when y is 0.
Divide(x, y) ==
    IF y = 0 THEN Raised("ZeroDivisionError", "float division by zero")
    ELSE Returned(Ratio(x, y))

(***************************************************************************)
(* POIDetector (src/bot/analysis/poi.py)                                   *)
(***************************************************************************)
\* Config.FVG_TOLERANCE = 0.0001, in units of 0.0001.
FVG_TOLERANCE == 1

\* range(i + 1, min(i + 20, len(candles))): the candles searched for a retest.
RETEST_LOOKAHEAD == 20

\* pois[:20]
MAX_POIS == 20

OrderBlock(c, i, strength) ==
    [timestamp |-> c.timestamp, high |-> Max(c.open, c.close),
     low |-> Min(c.open, c.close), open_price |-> c.open,
     close_price |-> c.close, is_bullish |-> c.close > c.open,
     candle_index |-> i, strength |-> strength]

ImpulseUp(current, prev, prev2) ==
    /\ current.close > prev.close /\ prev.close > prev2.close
    /\ current.high > prev.high /\ prev.high > prev2.high

ImpulseDown(current, prev, prev2) ==
    /\ current.close < prev.close /\ prev.close < prev2.close
    /\ current.low < prev.low /\ prev.low < prev2.low

\* abs(current.close - current.open) / (current.high - current.low)
BodyRatio(c) == Divide(Abs(c.close - c.open), c.high - c.low)

\* body_ratio > 0.6
IsStrongBody(body_ratio) == RatioGt(body_ratio, 6, 10)

\* for i in range(2, len(candles)): the order blocks appended from index i
\* on, after those of acc; the division raises out of the loop.
RECURSIVE OrderBlocksFrom(_, _, _)
OrderBlocksFrom(cs, i, acc) ==
    IF i >= Len(cs) THEN Returned(acc)
    ELSE LET current == At(cs, i)
             prev == At(cs, i - 1)
             prev2 == At(cs, i - 2)
         IN IF ImpulseUp(current, prev, prev2) \/ ImpulseDown(current, prev, prev2)
            THEN LET q == BodyRatio(current)
                 IN IF q.raised THEN q
                    ELSE IF IsStrongBody(q.value)
                    THEN OrderBlocksFrom(cs, i + 1,
                                         Append(acc, OrderBlock(prev2, i - 2, q.value)))
                    ELSE OrderBlocksFrom(cs, i + 1, acc)
            ELSE OrderBlocksFrom(cs, i + 1, acc)

DetectOrderBlocks(cs) == OrderBlocksFrom(cs, 2, <<>>)

\* Mutant of FairValueGap: top and bottom exchanged.
FairValueGapSwapped(c2, top, bottom, isBullish, i) ==
    [timestamp |-> c2.timestamp, top |-> bottom, bottom |-> top,
     mid |-> Ratio(top + bottom, 2), is_bullish |-> isBullish,
     candle_index |-> i, fill_percentage |-> 0]

\* mid is kept in half units: (a + b) / 2 is Ratio(a + b, 2).
FairValueGap(c2, top, bottom, isBullish, i) ==
    [timestamp |-> c2.timestamp, top |-> top, bottom |-> bottom,
     mid |-> Ratio(top + bottom, 2), is_bullish |-> isBullish,
     candle_index |-> i, fill_percentage |-> 0]

RECURSIVE FvgFrom(_, _)
FvgFrom(cs, i) ==
    IF i >= Len(cs) THEN <<>>
    ELSE LET candle1 == At(cs, i - 2)
             candle2 == At(cs, i - 1)
             candle3 == At(cs, i)
         IN (IF candle1.high < candle3.low
             THEN IF candle3.low - candle1.high > FVG_TOLERANCE
                  THEN <<FairValueGap(candle2, candle3.low, candle1.high, TRUE, i - 1)>>
                  ELSE <<>>
             ELSE IF candle1.low > candle3.high
                     /\ candle1.low - candle3.high > FVG_TOLERANCE
                  THEN <<FairValueGap(candle2, candle1.low, candle3.high, FALSE, i - 1)>>
                  ELSE <<>>)
            \o FvgFrom(cs, i + 1)

DetectFvg(cs) == FvgFrom(cs, 2)

Breaker(c, ob, j) ==
    [timestamp |-> c.timestamp, high |-> ob.high, low |-> ob.low,
     original_ob_high |-> ob.high, original_ob_low |-> ob.low,
     candle_index |-> j]

Invalidates(ob, c) ==
    IF ob.is_bullish THEN c.low < ob.low ELSE c.high > ob.high

Retests(ob, c) ==
    IF ob.is_bullish THEN c.high > ob.high /\ c.close < c.open
    ELSE c.low < ob.low /\ c.close > c.open

\* for j in range(i + 1, min(i + 20, len(candles))): the first retest, or -1
RECURSIVE RetestFrom(_, _, _, _)
RetestFrom(cs, ob, j, stop) ==
    IF j >= stop THEN -1
    ELSE IF Retests(ob, At(cs, j)) THEN j
    ELSE RetestFrom(cs, ob, j + 1, stop)

\* for i in range(ob.candle_index + 1, len(candles)): every invalidating
\* candle with a retest in its lookahead appends a breaker (the break leaves
\* the retest search only).
RECURSIVE BreakersOfBlock(_, _, _)
BreakersOfBlock(cs, ob, i) ==
    IF i >= Len(cs) THEN <<>>
    ELSE LET j == IF Invalidates(ob, At(cs, i))
                  THEN RetestFrom(cs, ob, i + 1,
                                  Min(i + RETEST_LOOKAHEAD, Len(cs)))
                  ELSE -1
         IN (IF j >= 0 THEN <<Breaker(At(cs, j), ob, j)>> ELSE <<>>)
            \o BreakersOfBlock(cs, ob, i + 1)

RECURSIVE DetectBreakers(_, _)
DetectBreakers(cs, order_blocks) ==
    IF order_blocks = <<>> THEN <<>>
    ELSE BreakersOfBlock(cs, Head(order_blocks), Head(order_blocks).candle_index + 1)
         \o DetectBreakers(cs, Tail(order_blocks))

POIResult(type, zh, zl, t, i, strength, isBullish) ==
    [poi_type |-> type, zone_high |-> zh, zone_low |-> zl, timestamp |-> t,
     candle_index |-> i, strength |-> strength, is_bullish |-> isBullish]

\* wick_ratio > 0.5
IsLongWick(wick_ratio) == RatioGt(wick_ratio, 5, 10)

RejectionBlock(c, i, isBullish, wick) ==
    POIResult("RB", c.high, c.low, c.timestamp, i, Ratio(wick, c.high - c.low),
              isBullish)

\* for i in range(1, len(candles) - 1).  Under either guard the candle's
\* range is positive, so the division cannot raise.
RECURSIVE RejectionBlocksFrom(_, _)
RejectionBlocksFrom(cs, i) ==
    IF i >= Len(cs) - 1 THEN <<>>
    ELSE LET current == At(cs, i)
             next_candle == At(cs, i + 1)
             upper == current.high - Max(current.open, current.close)
             lower == Min(current.open, current.close) - current.low
         IN (IF current.high > current.open /\ current.close < current.open
                /\ next_candle.low < current.low
             THEN IF IsLongWick(Ratio(upper, current.high - current.low))
                  THEN <<RejectionBlock(current, i, FALSE, upper)>>
                  ELSE <<>>
             ELSE IF current.low < current.open /\ current.close > current.open
                     /\ next_candle.high > current.high
                     /\ IsLongWick(Ratio(lower, current.high - current.low))
                  THEN <<RejectionBlock(current, i, TRUE, lower)>>
                  ELSE <<>>)
            \o RejectionBlocksFrom(cs, i + 1)

DetectRejectionBlocks(cs) == RejectionBlocksFrom(cs, 1)

OrderBlockPoi(ob) ==
    POIResult("OB", ob.high, ob.low, ob.timestamp, ob.candle_index, ob.strength,
              ob.is_bullish)

FvgPoi(fvg) ==
    POIResult("FVG", fvg.top, fvg.bottom, fvg.timestamp, fvg.candle_index, ONE,
              fvg.is_bullish)

BreakerPoi(b) ==
    POIResult("BREAKER", b.high, b.low, b.timestamp, b.candle_index, ONE, FALSE)

\* [Op(x) for x in s]
MapSeq(Op(_), s) == [k \in 1..Len(s) |-> Op(s[k])]

GetAllPois(cs) ==
    LET obs == DetectOrderBlocks(cs)
    IN IF obs.raised THEN obs
       ELSE Returned(Take(SortByTimestampDesc(
                MapSeq(OrderBlockPoi, obs.value)
                \o MapSeq(FvgPoi, DetectFvg(cs))
                \o MapSeq(BreakerPoi, DetectBreakers(cs, obs.value))
                \o DetectRejectionBlocks(cs)), MAX_POIS))

(***************************************************************************)
(* ConfirmationDetector (src/bot/analysis/confirmation.py)                 *)
(***************************************************************************)
\* max(body1_size, 0.0001), in units of 0.0001
MIN_BODY == 1

\* candles[i-10:i]: the window of the recent structure.
BREAK_WINDOW == 10

\* range(i + 1, min(i + 8, len(candles))): the candles searched for a retest.
BREAK_LOOKAHEAD == 8

\* abs(retest_candle.low - recent_high) < 0.0001, in units of 0.0001
RETEST_TOLERANCE == 1

\* filtered[:10]
MAX_CONFIRMATIONS == 10

\* confidence=0.8 of a break entry
BREAK_ENTRY_CONFIDENCE == Ratio(8, 10)

ConfirmationPattern(type, c, i, isBullish, confidence) ==
    [pattern_type |-> type, timestamp |-> c.timestamp, price |-> c.close,
     candle_index |-> i, is_bullish |-> isBullish, confidence |-> confidence]

\* min(1.0, r)
MinOne(r) == IF RatioGreater(r, ONE) THEN ONE ELSE r

\* Mutant of StarConfidence: the product is not capped at 1.0.
StarConfidenceUncapped(candle1, candle2, candle3) ==
    LET body1 == Max(Abs(candle1.close - candle1.open), MIN_BODY)
        body2 == Abs(candle2.close - candle2.open)
        body3 == Abs(candle3.close - candle3.open)
    IN Ratio(body3 * (body1 - body2), body1 * body1)

\* min(1.0, (body3 / max(body1, 0.0001)) * (1.0 - body2 / max(body1, 0.0001)))
StarConfidence(candle1, candle2, candle3) ==
    LET body1 == Max(Abs(candle1.close - candle1.open), MIN_BODY)
        body2 == Abs(candle2.close - candle2.open)
        body3 == Abs(candle3.close - candle3.open)
    IN MinOne(Ratio(body3 * (body1 - body2), body1 * body1))

\* candle2 lies strictly inside the body of candle1
InsideBody(candle1, candle2) ==
    /\ candle2.high < Max(candle1.open, candle1.close)
    /\ candle2.low > Min(candle1.open, candle1.close)

\* candle3.close > (candle1.open + candle1.close) / 2
IsMorningStar(candle1, candle2, candle3) ==
    /\ candle1.close < candle1.open
    /\ InsideBody(candle1, candle2)
    /\ candle3.close > candle3.open
    /\ 2 * candle3.close > candle1.open + candle1.close

IsEveningStar(candle1, candle2, candle3) ==
    /\ candle1.close > candle1.open
    /\ InsideBody(candle1, candle2)
    /\ candle3.close < candle3.open
    /\ 2 * candle3.close < candle1.open + candle1.close

RECURSIVE MorningStarsFrom(_, _)
MorningStarsFrom(cs, i) ==
    IF i >= Len(cs) THEN <<>>
    ELSE (IF IsMorningStar(At(cs, i - 2), At(cs, i - 1), At(cs, i))
          THEN <<ConfirmationPattern("MORNING_STAR", At(cs, i), i, TRUE,
                     StarConfidence(At(cs, i - 2), At(cs, i - 1), At(cs, i)))>>
          ELSE <<>>)
         \o MorningStarsFrom(cs, i + 1)

DetectMorningStar(cs) == MorningStarsFrom(cs, 2)

RECURSIVE EveningStarsFrom(_, _)
EveningStarsFrom(cs, i) ==
    IF i >= Len(cs) THEN <<>>
    ELSE (IF IsEveningStar(At(cs, i - 2), At(cs, i - 1), At(cs, i))
          THEN <<ConfirmationPattern("EVENING_STAR", At(cs, i), i, FALSE,
                     StarConfidence(At(cs, i - 2), At(cs, i - 1), At(cs, i)))>>
          ELSE <<>>)
         \o EveningStarsFrom(cs, i + 1)

DetectEveningStar(cs) == EveningStarsFrom(cs, 2)

\* The bullish retest of a broken high / the bearish retest of a broken low
RetestsBreak(up, level, c) ==
    IF up THEN Abs(c.low - level) < RETEST_TOLERANCE /\ c.close > c.open
    ELSE Abs(c.high - level) < RETEST_TOLERANCE /\ c.close < c.open

\* for j in range(i + 1, min(i + 8, len(candles))): the first retest, or -1
RECURSIVE BreakRetestFrom(_, _, _, _, _)
BreakRetestFrom(cs, up, level, j, stop) ==
    IF j >= stop THEN -1
    ELSE IF RetestsBreak(up, level, At(cs, j)) THEN j
    ELSE BreakRetestFrom(cs, up, level, j + 1, stop)

\* for i in range(10, len(candles))
RECURSIVE BreakEntriesFrom(_, _)
BreakEntriesFrom(cs, i) ==
    IF i >= Len(cs) THEN <<>>
    ELSE LET current == At(cs, i)
             recent_candles == SubSeq(cs, i - BREAK_WINDOW + 1, i)
             recent_high == MaxHigh(recent_candles)
             recent_low == MinLow(recent_candles)
             stop == Min(i + BREAK_LOOKAHEAD, Len(cs))
             up == current.close > recent_high
             j == IF up THEN BreakRetestFrom(cs, TRUE, recent_high, i + 1, stop)
                  ELSE IF current.close < recent_low
                  THEN BreakRetestFrom(cs, FALSE, recent_low, i + 1, stop)
                  ELSE -1
         IN (IF j >= 0
             THEN <<ConfirmationPattern("BREAK_ENTRY", At(cs, j), j, up,
                                        BREAK_ENTRY_CONFIDENCE)>>
             ELSE <<>>)
            \o BreakEntriesFrom(cs, i + 1)

DetectBreakEntry(cs) == BreakEntriesFrom(cs, BREAK_WINDOW)

\* for i, candle in enumerate(candles); a candle of zero range is skipped.
RECURSIVE RejectionCandlesFrom(_, _)
RejectionCandlesFrom(cs, i) ==
    IF i >= Len(cs) THEN <<>>
    ELSE LET candle == At(cs, i)
             upper_wick == candle.high - Max(candle.open, candle.close)
             lower_wick == Min(candle.open, candle.close) - candle.low
             body == Abs(candle.close - candle.open)
             total_range == candle.high - candle.low
             upper_wick_ratio == Ratio(upper_wick, total_range)
             lower_wick_ratio == Ratio(lower_wick, total_range)
             body_ratio == Ratio(body, total_range)
         IN (IF total_range = 0 THEN <<>>
             ELSE IF RatioGt(upper_wick_ratio, 6, 10) /\ RatioLt(body_ratio, 4, 10)
             THEN <<ConfirmationPattern("REJECTION", candle, i, FALSE, upper_wick_ratio)>>
             ELSE IF RatioGt(lower_wick_ratio, 6, 10) /\ RatioLt(body_ratio, 4, 10)
             THEN <<ConfirmationPattern("REJECTION", candle, i, TRUE, lower_wick_ratio)>>
             ELSE <<>>)
            \o RejectionCandlesFrom(cs, i + 1)

DetectRejectionCandle(cs) == RejectionCandlesFrom(cs, 0)

\* [p for p in all_patterns if p.is_bullish] (or not p.is_bullish)
RECURSIVE FilterBullish(_, _)
FilterBullish(ps, wanted) ==
    IF ps = <<>> THEN <<>>
    ELSE (IF Head(ps).is_bullish = wanted THEN <<Head(ps)>> ELSE <<>>)
         \o FilterBullish(Tail(ps), wanted)

\* (a.timestamp, a.confidence) > (b.timestamp, b.confidence)
KeyGreater(a, b) ==
    \/ a.timestamp > b.timestamp
    \/ a.timestamp = b.timestamp /\ RatioGreater(a.confidence, b.confidence)

\* filtered.sort(key=lambda x: (x.timestamp, x.confidence), reverse=True): a
\* stable sort; x goes after every element whose key is >= x's.
RECURSIVE InsertByKeyDesc(_, _)
InsertByKeyDesc(sorted, x) ==
    IF sorted = <<>> THEN <<x>>
    ELSE IF KeyGreater(x, Head(sorted)) THEN <<x>> \o sorted
    ELSE <<Head(sorted)>> \o InsertByKeyDesc(Tail(sorted), x)

RECURSIVE SortByKeyDescFrom(_, _)
SortByKeyDescFrom(acc, rest) ==
    IF rest = <<>> THEN acc
    ELSE SortByKeyDescFrom(InsertByKeyDesc(acc, Head(rest)), Tail(rest))

\* Mutant of GetConfirmations: the list is cut to 10 before it is sorted.
GetConfirmationsCutFirst(cs, bias_4h) ==
    LET all_patterns == DetectMorningStar(cs) \o DetectEveningStar(cs)
                        \o DetectBreakEntry(cs) \o DetectRejectionCandle(cs)
        filtered == IF bias_4h = "LONG" THEN FilterBullish(all_patterns, TRUE)
                    ELSE IF bias_4h = "SHORT" THEN FilterBullish(all_patterns, FALSE)
                    ELSE all_patterns
    IN SortByKeyDescFrom(<<>>, Take(filtered, MAX_CONFIRMATIONS))

GetConfirmations(cs, bias_4h) ==
    LET all_patterns == DetectMorningStar(cs) \o DetectEveningStar(cs)
                        \o DetectBreakEntry(cs) \o DetectRejectionCandle(cs)
        filtered == IF bias_4h = "LONG" THEN FilterBullish(all_patterns, TRUE)
                    ELSE IF bias_4h = "SHORT" THEN FilterBullish(all_patterns, FALSE)
                    ELSE all_patterns
    IN Take(SortByKeyDescFrom(<<>>, filtered), MAX_CONFIRMATIONS)

(***************************************************************************)
(* Candle feeds.  A feed is built one candle (or one block of candles) at  *)
(* a time in chronological order; consecutive candles are `step` seconds   *)
(* apart.  The providers of src/bot/providers sort newest first, the       *)
(* repository's tests build oldest first: both orders are modelled.        *)
(***************************************************************************)
\* The oldest-first list of stamped candles for bars b[1..n], the first of
\* them being candle number k of the feed.
RECURSIVE StampFrom(_, _, _)
StampFrom(bs, k, st) ==
    IF bs = <<>> THEN <<>>
    ELSE <<Stamp(Head(bs), k * st)>> \o StampFrom(Tail(bs), k + 1, st)

Extend(cs, bs, st, nf) ==
    IF nf THEN Reverse(StampFrom(bs, Len(cs), st)) \o cs
    ELSE cs \o StampFrom(bs, Len(cs), st)

\* The candles of test_bullish_bos_detection (src/tests/test_bos_mss.py:24-35)
BullishA ==
    << Bar(11000, 11010, 10990, 11005), Bar(11005, 11020, 11000, 11015),
       Bar(11015, 11030, 11010, 11025), Bar(11025, 11028, 11015, 11020) >>

BullishB ==
    << Bar(11020, 11025, 11000, 11005), Bar(11005, 11015, 10995, 11000),
       Bar(11000, 11010, 10980, 10985), Bar(10985, 11035, 10980, 11032) >>

\* The candles of test_bearish_bos_detection (src/tests/test_bos_mss.py:53-64)
BearishA ==
    << Bar(11030, 11040, 11020, 11035), Bar(11035, 11040, 11010, 11015),
       Bar(11015, 11020, 10990, 10995), Bar(10995, 11005, 10990, 11000) >>

BearishB ==
    << Bar(11000, 11010, 10995, 11005), Bar(11005, 11015, 11000, 11010),
       Bar(11010, 11020, 11005, 11015), Bar(11015, 11020, 10985, 10988) >>

Segments == {BullishA, BullishB, BearishA, BearishB}

\* Bound: the number of segments of a structure feed.
MaxSegments == 5

\* Candle spacings: 30 minutes (the tests) and 4 hours (the engine's feed).
Steps == {1800, 14400}

\* SWING_LOOKBACK of config.py, and the lookback the swing tests use.
SWING_LOOKBACK == 3

Lookbacks == {2, SWING_LOOKBACK}

\* Bars of the swing feeds: three highs over two lows.
SwingBars == { Bar(l, h, l, h) : h \in 3..5, l \in 1..2 }

\* Bounds of the swing feeds.
MaxSwingCandles == 5

MaxSwingLookback == 2

NoStructure == MarketStructure("none", None, None, <<>>, <<>>, <<>>, <<>>)

Unbound == [unbound |-> TRUE]

InitEngine ==
    /\ stage = "fetch_4h"
    /\ candles_4h = Unbound
    /\ candles_30m = Unbound
    /\ candles_5m = Unbound
    /\ locals = Unbound
    /\ stages_run = {}
    /\ thrown = {}
    /\ result = None

InitDetectors ==
    /\ returned = None
    /\ tasks = <<>>
    /\ candles = <<>>
    /\ pc = "input"
    /\ swings = <<>>
    /\ structure = NoStructure
    /\ events = <<>>
    /\ bias = <<"none", None>>
    /\ pools = <<>>
    /\ sweeps = <<>>

InitOutputs ==
    /\ InitEngine
    /\ InitDetectors

(***************************************************************************)
(* Operations on a feed                                                    *)
(***************************************************************************)
AppendCandle(b) ==
    /\ pc = "input"
    /\ Len(candles) < MaxSwingCandles
    /\ candles' = Extend(candles, <<b>>, step, newest_first)
    /\ UNCHANGED <<lookback, step, newest_first, pc, swings, structure, events, bias,
                   pools, sweeps>>
    /\ UNCHANGED <<engine, returned, tasks>>

AppendSegment(seg) ==
    /\ pc = "input"
    /\ Len(candles) < MaxSegments * Len(seg)
    /\ candles' = Extend(candles, seg, step, newest_first)
    /\ UNCHANGED <<lookback, step, newest_first, pc, swings, structure, events, bias,
                   pools, sweeps>>
    /\ UNCHANGED <<engine, returned, tasks>>

CallDetectSwings ==
    /\ pc = "input"
    /\ pc' = "detect_swings"
    /\ swings' = DetectSwings(candles, lookback)
    /\ UNCHANGED <<feed, structure, events, bias, pools, sweeps>>
    /\ UNCHANGED <<engine, returned, tasks>>

CallAnalyzeStructure ==
    /\ pc = "input"
    /\ pc' = "analyze_structure"
    /\ structure' = AnalyzeStructure(candles, lookback)
    /\ UNCHANGED <<feed, swings, events, bias, pools, sweeps>>
    /\ UNCHANGED <<engine, returned, tasks>>

CallDetectBosMss ==
    /\ pc = "input"
    /\ pc' = "detect_bos_mss"
    /\ events' = DetectBosMss(candles, lookback)
    /\ UNCHANGED <<feed, swings, structure, bias, pools, sweeps>>
    /\ UNCHANGED <<engine, returned, tasks>>

CallGetBias ==
    /\ pc = "input"
    /\ pc' = "get_bias"
    /\ bias' = GetBias(candles, lookback)
    /\ UNCHANGED <<feed, swings, structure, events, pools, sweeps>>
    /\ UNCHANGED <<engine, returned, tasks>>

CallFindLiquidityPools ==
    /\ pc = "input"
    /\ pc' = "find_liquidity_pools"
    /\ pools' = FindLiquidityPools(candles)
    /\ UNCHANGED <<feed, swings, structure, events, bias, sweeps>>
    /\ UNCHANGED <<engine, returned, tasks>>

\* detect_sweeps on the pools find_liquidity_pools found for the same
\* candles, as the engine calls it.
CallDetectSweeps ==
    /\ pc = "find_liquidity_pools"
    /\ pc' = "detect_sweeps"
    /\ sweeps' = DetectSweeps(candles, pools)
    /\ UNCHANGED <<feed, swings, structure, events, bias, pools>>
    /\ UNCHANGED <<engine, returned, tasks>>

(***************************************************************************)
(* AIVerifier (src/bot/analysis/ai_verifier.py)                            *)
(***************************************************************************)
ReasonKeys == {"direction", "poi", "liquidity", "confirmation"}

\* The same text under each of the four reason keys.
Reasons(text) == [k \in ReasonKeys |-> text]

AIVerification(decision, confidence, reasons, missing, notes) ==
    [decision |-> decision, confidence |-> confidence, reasons |-> reasons,
     missing_conditions |-> missing, risk_notes |-> notes]

\* ", ".join(missing_conditions)
RECURSIVE Join(_)
Join(ss) ==
    IF ss = <<>> THEN ""
    ELSE IF Len(ss) = 1 THEN ss[1]
    ELSE ss[1] \o ", " \o Join(Tail(ss))

\* min(100, max(0, int(data.get("confidence", 50))))
ClampConfidence(c) == Min(100, Max(0, c))

\* _parse_ai_response on a reply that is valid JSON: data is the decoded
\* object.
ParseAiResponse(data) ==
    AIVerification(data.decision, ClampConfidence(data.confidence), data.reasons,
                   data.missing_conditions, data.risk_notes)

\* not analysis_data.get('4h_bias'): a missing key, None or the empty string.
\* Every bias get_bias produces, "NEUTRAL" included, is a non-empty string.
NoBias(analysis_data) == analysis_data.bias_4h = ""

\* _validate_against_rules: the conditions appended, in order.
MissingConditions(analysis_data) ==
    (IF NoBias(analysis_data) THEN <<"No clear 4H bias">> ELSE <<>>)
    \o (IF analysis_data.poi_type_30m \in {None, Some("None")}
        THEN <<"No valid POI detected">>
        ELSE IF ~NoBias(analysis_data)
                /\ analysis_data.poi_type_30m.value \notin {"OB", "FVG"}
        THEN <<"POI type not sufficient (need OB/FVG)">>
        ELSE <<>>)
    \o (IF ~analysis_data.liquidity_sweep
        THEN <<"No liquidity sweep detected">> ELSE <<>>)
    \o (IF analysis_data.pattern_5m = None
        THEN <<"No confirmation pattern">> ELSE <<>>)

ValidateAgainstRules(ai_result, analysis_data) ==
    LET missing == MissingConditions(analysis_data)
    IN IF missing # <<>>
       THEN AIVerification("NO_TRADE", Max(20, ai_result.confidence - 30),
                           ai_result.reasons, missing,
                           "Hard rule failures: " \o Join(missing))
       ELSE ai_result

\* The reply _call_ai returns today (a placeholder for the request to the
\* model).
PlaceholderReply ==
    [decision |-> "NO_TRADE", confidence |-> 50,
     reasons |-> Reasons("AI placeholder - implement actual API call"),
     missing_conditions |-> <<"AI implementation">>,
     risk_notes |-> "This is a placeholder response"]

\* Mutant of VerifySignal: a failed request or reply gives NO_TRADE.
VerifySignalFailingClosed(is_enabled, reply, analysis_data, deterministic_decision) ==
    IF ~is_enabled
    THEN AIVerification(deterministic_decision,
                        IF deterministic_decision # "NO_TRADE" THEN 70 ELSE 50,
                        Reasons("AI verifier disabled"), <<>>,
                        "AI verification disabled - using deterministic analysis only")
    ELSE IF reply.raised
    THEN AIVerification("NO_TRADE", 40, Reasons("AI verification failed"), <<>>,
                        "AI verification error: " \o reply.message)
    ELSE ValidateAgainstRules(ParseAiResponse(reply.value), analysis_data)

\* verify_signal.  reply is the outcome of `await self._call_ai(prompt)`
\* followed by json.loads: the decoded object, or the exception of a failed
\* request or of a reply that is not JSON.
VerifySignal(is_enabled, reply, analysis_data, deterministic_decision) ==
    IF ~is_enabled
    THEN AIVerification(deterministic_decision,
                        IF deterministic_decision # "NO_TRADE" THEN 70 ELSE 50,
                        Reasons("AI verifier disabled"), <<>>,
                        "AI verification disabled - using deterministic analysis only")
    ELSE IF reply.raised
    THEN AIVerification(deterministic_decision,
                        IF deterministic_decision # "NO_TRADE" THEN 60 ELSE 40,
                        Reasons("AI verification failed"), <<>>,
                        "AI verification error: " \o reply.message)
    ELSE ValidateAgainstRules(ParseAiResponse(reply.value), analysis_data)

(***************************************************************************)
(* SignalEngine (src/bot/analysis/signal_engine.py)                        *)
(***************************************************************************)
\* Config.POI_PROXIMITY_CANDLES
POI_PROXIMITY_CANDLES == 10

\* LIQUIDITY_TOLERANCE * 10 of check_sweep_into_poi
PROXIMITY_FACTOR == 10

\* Config.DEFAULT_RISK_R = 2.0
DEFAULT_RISK_R == 2

\* The symbol analysed.
SYMBOL == "EURUSD"

\* A value a provider returns: a list of candles, or Python's None.
PyList(cs) == [is_none |-> FALSE, items |-> cs]

PyNone == [is_none |-> TRUE, items |-> <<>>]

\* bool(v) of a list or None
Truthy(v) == ~v.is_none /\ v.items # <<>>

\* The first index whose candle has the timestamp, or -1 (the loop ends
\* without a match).
RECURSIVE IndexOfTimestamp(_, _, _)
IndexOfTimestamp(cs, t, i) ==
    IF i >= Len(cs) THEN -1
    ELSE IF At(cs, i).timestamp = t THEN i
    ELSE IndexOfTimestamp(cs, t, i + 1)

\* Mutant of CheckSweepIntoPoi: the candle index of the sweep is not tested.
RECURSIVE CheckSweepIntoPoiAnyAge(_, _, _, _)
CheckSweepIntoPoiAnyAge(cs, sws, poi_price, max_candles_away) ==
    IF sws = <<>> THEN None
    ELSE LET sweep == Head(sws)
             distance == Ratio(Abs(sweep.pool_price * poi_price.den - poi_price.num),
                               poi_price.den)
         IN IF ~RatioGt(distance, LIQUIDITY_TOLERANCE * PROXIMITY_FACTOR, 1)
            THEN [sweep EXCEPT !.proximity_to_poi = distance]
            ELSE CheckSweepIntoPoiAnyAge(cs, Tail(sws), poi_price, max_candles_away)

\* LiquidityDetector.check_sweep_into_poi.  poi_price is a Ratio; distance
\* is abs(sweep.pool_price - poi_price), over the same denominator.
RECURSIVE CheckSweepIntoPoi(_, _, _, _)
CheckSweepIntoPoi(cs, sws, poi_price, max_candles_away) ==
    IF sws = <<>> THEN None
    ELSE LET sweep == Head(sws)
             distance == Ratio(Abs(sweep.pool_price * poi_price.den - poi_price.num),
                               poi_price.den)
             i == IndexOfTimestamp(cs, sweep.timestamp, 0)
         IN IF ~RatioGt(distance, LIQUIDITY_TOLERANCE * PROXIMITY_FACTOR, 1)
               /\ i >= 0 /\ i <= max_candles_away
            THEN [sweep EXCEPT !.proximity_to_poi = distance]
            ELSE CheckSweepIntoPoi(cs, Tail(sws), poi_price, max_candles_away)

\* The sweeps list after check_sweep_into_poi: `sweep.proximity_to_poi =
\* distance` (line 181) assigns to the object that is in the list.
RECURSIVE SweepsAfterCheck(_, _, _, _)
SweepsAfterCheck(cs, sws, poi_price, max_candles_away) ==
    IF sws = <<>> THEN <<>>
    ELSE LET found == CheckSweepIntoPoi(cs, <<Head(sws)>>, poi_price, max_candles_away)
         IN IF found # None THEN <<found>> \o Tail(sws)
            ELSE <<Head(sws)>>
                 \o SweepsAfterCheck(cs, Tail(sws), poi_price, max_candles_away)

Aligned(poi, bias_4h) ==
    \/ bias_4h = "LONG" /\ poi.poi_type \in {"OB", "FVG"} /\ poi.is_bullish
    \/ bias_4h = "SHORT" /\ poi.poi_type \in {"OB", "FVG"} /\ ~poi.is_bullish

RECURSIVE AlignedPois(_, _)
AlignedPois(pois, bias_4h) ==
    IF pois = <<>> THEN <<>>
    ELSE (IF Aligned(Head(pois), bias_4h) THEN <<Head(pois)>> ELSE <<>>)
         \o AlignedPois(Tail(pois), bias_4h)

\* max(aligned_pois, key=lambda x: x.strength): the first of the strongest.
RECURSIVE MaxByStrengthFrom(_, _)
MaxByStrengthFrom(best, rest) ==
    IF rest = <<>> THEN best
    ELSE MaxByStrengthFrom(
             IF RatioGreater(Head(rest).strength, best.strength) THEN Head(rest)
             ELSE best,
             Tail(rest))

\* Mutant of FindBestPoi: without an aligned POI there is no best POI.
FindBestPoiAlignedOnly(pois, bias_4h) ==
    LET aligned_pois == AlignedPois(pois, bias_4h)
    IN IF aligned_pois = <<>> THEN None
       ELSE MaxByStrengthFrom(Head(aligned_pois), Tail(aligned_pois))

FindBestPoi(pois, bias_4h) ==
    IF pois = <<>> THEN None
    ELSE LET aligned_pois == AlignedPois(pois, bias_4h)
         IN IF aligned_pois = <<>> THEN pois[1]
            ELSE MaxByStrengthFrom(Head(aligned_pois), Tail(aligned_pois))

FindRelevantSweep(sws, poi, cs) ==
    IF poi = None \/ sws = <<>> THEN None
    ELSE CheckSweepIntoPoi(cs, sws, Ratio(poi.zone_high + poi.zone_low, 2),
                           POI_PROXIMITY_CANDLES)

\* Mutant of MakeDeterministicDecision: rule 3 (the sweep) is not checked.
DecisionWithoutSweepRule(bias_4h, poi, sweep, confirmation) ==
    IF bias_4h \notin {"LONG", "SHORT"} THEN "NO_TRADE"
    ELSE IF poi = None THEN "NO_TRADE"
    ELSE IF bias_4h = "LONG" /\ ~poi.is_bullish THEN "NO_TRADE"
    ELSE IF bias_4h = "SHORT" /\ poi.is_bullish THEN "NO_TRADE"
    ELSE IF confirmation = None THEN "NO_TRADE"
    ELSE IF bias_4h = "LONG" THEN "BUY" ELSE "SELL"

MakeDeterministicDecision(bias_4h, poi, sweep, confirmation) ==
    IF bias_4h \notin {"LONG", "SHORT"} THEN "NO_TRADE"
    ELSE IF poi = None THEN "NO_TRADE"
    ELSE IF bias_4h = "LONG" /\ ~poi.is_bullish THEN "NO_TRADE"
    ELSE IF bias_4h = "SHORT" /\ poi.is_bullish THEN "NO_TRADE"
    ELSE IF sweep = None THEN "NO_TRADE"
    ELSE IF confirmation = None THEN "NO_TRADE"
    ELSE IF bias_4h = "LONG" THEN "BUY" ELSE "SELL"

\* f"{x:.5f}": the text of x with five decimals, kept as the number of
\* 0.00001 it denotes (x is a Ratio in units of 0.0001).
Format5(x) == (20 * x.num + x.den) \div (2 * x.den)

\* float(text) of such a text, in units of 0.0001
ParseFloat(text) == Ratio(text, 10)

\* f"{poi.zone_low:.5f}-{poi.zone_high:.5f}"
Zone(poi) == <<Format5(Ratio(poi.zone_low, 1)), Format5(Ratio(poi.zone_high, 1))>>

SwingPrice(swing) == IF swing = None THEN None ELSE Some(swing.price)

\* The keys the engine and the verifier read are bias_4h ("4h_bias"),
\* poi_type_30m ("30m_poi_type") and pattern_5m ("5m_pattern").
PrepareAnalysisData(bias_4h, structure_4h, poi, sweep, confirmation, bos_mss_event) ==
    [symbol |-> SYMBOL,
     trend_4h |-> structure_4h.trend,
     bias_4h |-> bias_4h,
     last_event_4h |-> IF bos_mss_event = None THEN "None" ELSE bos_mss_event.event_type,
     swing_high_4h |-> SwingPrice(structure_4h.last_swing_high),
     swing_low_4h |-> SwingPrice(structure_4h.last_swing_low),
     poi_type_30m |-> IF poi = None THEN None ELSE Some(poi.poi_type),
     poi_zone_30m |-> IF poi = None THEN None ELSE Some(Zone(poi)),
     poi_strength_30m |-> IF poi = None THEN None ELSE Some(poi.strength),
     liquidity_sweep |-> sweep # None,
     swept_pool_type |-> IF sweep = None THEN None ELSE Some(sweep.pool_type),
     sweep_price |-> IF sweep = None THEN None ELSE Some(sweep.pool_price),
     pattern_5m |-> IF confirmation = None THEN None ELSE Some(confirmation.pattern_type),
     confidence_5m |-> IF confirmation = None THEN None ELSE Some(confirmation.confidence),
     entry_price_5m |-> IF confirmation = None THEN None ELSE Some(confirmation.price)]

\* The four values of trade_plan.get(...): None for the keys of an empty plan.
TradePlan(entry_zone, invalidation_level, target1, target2) ==
    [entry_zone |-> entry_zone, invalidation_level |-> invalidation_level,
     target1 |-> target1, target2 |-> target2]

EmptyPlan == TradePlan(None, None, None, None)

GenerateTradePlan(decision, poi, structure_4h) ==
    IF decision = "NO_TRADE" \/ poi = None THEN EmptyPlan
    ELSE LET invalidation == IF poi.is_bullish THEN Format5(Ratio(poi.zone_low, 1))
                             ELSE Format5(Ratio(poi.zone_high, 1))
             target1 == IF structure_4h.last_swing_high # None /\ decision = "BUY"
                        THEN Some(Format5(Ratio(structure_4h.last_swing_high.price, 1)))
                        ELSE IF structure_4h.last_swing_low # None /\ decision = "SELL"
                        THEN Some(Format5(Ratio(structure_4h.last_swing_low.price, 1)))
                        ELSE None
             \* entry_mid, float(invalidation), risk and reward over the
             \* denominator 20
             entry_mid == 10 * (poi.zone_high + poi.zone_low)
             level == 2 * ParseFloat(invalidation).num
             risk == Abs(entry_mid - level)
             reward == risk * DEFAULT_RISK_R
             target2 == IF decision = "BUY"
                        THEN Format5(Ratio(entry_mid + reward, 20))
                        ELSE Format5(Ratio(entry_mid - reward, 20))
         IN TradePlan(Some(Zone(poi)), Some(invalidation), target1, Some(target2))

\* SignalResult of a completed analysis (lines 123-163).  symbol and the
\* wall-clock timestamp are left out.
SignalResult(loc, verification, plan) ==
    [decision |-> verification.decision,
     confidence |-> verification.confidence,
     bias |-> loc.bias_4h,
     trend_4h |-> loc.structure_4h.trend,
     bos_mss_4h |-> IF loc.bos_mss_event = None THEN "NONE"
                    ELSE loc.bos_mss_event.event_type,
     swing_high_4h |-> SwingPrice(loc.structure_4h.last_swing_high),
     swing_low_4h |-> SwingPrice(loc.structure_4h.last_swing_low),
     poi_type |-> IF loc.best_poi = None THEN None ELSE Some(loc.best_poi.poi_type),
     poi_zone |-> IF loc.best_poi = None THEN None ELSE Some(Zone(loc.best_poi)),
     poi_strength |-> IF loc.best_poi = None THEN None ELSE Some(loc.best_poi.strength),
     liquidity_sweep |-> loc.relevant_sweep # None,
     sweep_details |-> IF loc.relevant_sweep = None THEN None
                       ELSE Some([type |-> loc.relevant_sweep.pool_type,
                                  price |-> loc.relevant_sweep.pool_price,
                                  sweep_price |-> loc.relevant_sweep.sweep_price]),
     confirmation_pattern |-> IF loc.best_confirmation = None THEN None
                              ELSE Some(loc.best_confirmation.pattern_type),
     confirmation_confidence |-> IF loc.best_confirmation = None THEN None
                                 ELSE Some(loc.best_confirmation.confidence),
     ai_reasons |-> verification.reasons,
     missing_conditions |-> verification.missing_conditions,
     risk_notes |-> verification.risk_notes,
     entry_zone |-> plan.entry_zone,
     invalidation_level |-> plan.invalidation_level,
     target1 |-> plan.target1,
     target2 |-> plan.target2]

CreateErrorResult(error) ==
    [decision |-> "NO_TRADE",
     confidence |-> 0,
     bias |-> "ERROR",
     trend_4h |-> "ERROR",
     bos_mss_4h |-> "ERROR",
     swing_high_4h |-> None,
     swing_low_4h |-> None,
     poi_type |-> None,
     poi_zone |-> None,
     poi_strength |-> None,
     liquidity_sweep |-> FALSE,
     sweep_details |-> None,
     confirmation_pattern |-> None,
     confirmation_confidence |-> None,
     ai_reasons |-> [error |-> error],
     missing_conditions |-> <<"analysis_error">>,
     risk_notes |-> "Analysis failed: " \o error,
     entry_zone |-> None,
     invalidation_level |-> None,
     target1 |-> None,
     target2 |-> None]

\* Mutant of Except: the exception leaves analyze_symbol.
Propagate(outcome) == outcome

\* The try/except of analyze_symbol around an outcome of its body: what
\* the call returns to its caller.
Except(outcome) ==
    IF outcome.raised THEN Returned(CreateErrorResult(outcome.message))
    ELSE outcome

\* Mutant of InsufficientData: only the 4H list is checked.
InsufficientDataOn4H(c4h, c30m, c5m) == ~Truthy(c4h)

\* Lines 76-77
InsufficientData(c4h, c30m, c5m) == ~(Truthy(c4h) /\ Truthy(c30m) /\ Truthy(c5m))

\* The detector stages lines 76-107 run on the three lists, in order (the
\* order-block division raises inside get_all_pois).
Detectors(c4h, c30m, c5m) ==
    IF InsufficientData(c4h, c30m, c5m) THEN {}
    ELSE IF GetAllPois(c30m.items).raised
    THEN {"get_bias", "analyze_structure", "get_all_pois"}
    ELSE {"get_bias", "analyze_structure", "get_all_pois", "find_best_poi",
          "find_liquidity_pools", "detect_sweeps", "find_relevant_sweep",
          "get_confirmations", "make_deterministic_decision"}

\* Where lines 76-107 raise, when they do: at the check of the three lists
\* or inside get_all_pois.
FailedStage(c4h, c30m, c5m) ==
    IF InsufficientData(c4h, c30m, c5m) THEN "check_data" ELSE "get_all_pois"

\* Lines 98-107: the locals of analyze_symbol at the call of verify_signal.
LocalsAtVerify(bias_4h, bos_mss_event, structure_4h, best_poi, relevant_sweep, best_confirmation) ==
    [bias_4h |-> bias_4h,
     bos_mss_event |-> bos_mss_event,
     structure_4h |-> structure_4h,
     best_poi |-> best_poi,
     relevant_sweep |-> relevant_sweep,
     best_confirmation |-> best_confirmation,
     deterministic_decision |->
         MakeDeterministicDecision(bias_4h, best_poi, relevant_sweep,
                                   best_confirmation),
     analysis_data |->
         PrepareAnalysisData(bias_4h, structure_4h, best_poi, relevant_sweep,
                             best_confirmation, bos_mss_event)]

\* Lines 92-96: the sweep relevant to the POI and the newest confirmation.
AnalyzeLiquidity(bias_4h, bos_mss_event, structure_4h, best_poi, swept, confirmations, cs30m) ==
    LocalsAtVerify(bias_4h, bos_mss_event, structure_4h, best_poi,
                   FindRelevantSweep(swept, best_poi, cs30m),
                   IF confirmations # <<>> THEN confirmations[1] ELSE None)

\* Lines 86-95, after get_all_pois returned or raised.
AnalyzePois(got, structure_4h, pois_30m, cs30m, cs5m) ==
    IF pois_30m.raised THEN pois_30m
    ELSE Returned(AnalyzeLiquidity(got[1], got[2], structure_4h,
                                   FindBestPoi(pois_30m.value, got[1]),
                                   DetectSweeps(cs30m, FindLiquidityPools(cs30m)),
                                   GetConfirmations(cs5m, got[1]), cs30m))

\* Lines 76-107 of analyze_symbol: the values of the locals at the call of
\* verify_signal, or the exception raised on the way.
Analyze(c4h, c30m, c5m) ==
    IF InsufficientData(c4h, c30m, c5m)
    THEN Raised("ValueError", "Insufficient data for " \o SYMBOL)
    ELSE AnalyzePois(GetBias(c4h.items, SWING_LOOKBACK),
                     AnalyzeStructure(c4h.items, SWING_LOOKBACK),
                     GetAllPois(c30m.items), c30m.items, c5m.items)

\* Lines 114-163: the trade plan and the SignalResult.
ResultOf(loc, ai_verification) ==
    SignalResult(loc, ai_verification,
                 GenerateTradePlan(ai_verification.decision, loc.best_poi,
                                   loc.structure_4h))

\* Lines 110-163: from the return of verify_signal to the return statement.
Conclude(loc, is_enabled, reply) ==
    Returned(ResultOf(loc, VerifySignal(is_enabled, reply, loc.analysis_data,
                                        loc.deterministic_decision)))

(***************************************************************************)
(* One call of SignalEngine.analyze_symbol.  The call is suspended at its  *)
(* four awaits (three get_candles and verify_signal's _call_ai); each      *)
(* action runs from one await to the next.                                 *)
(***************************************************************************)
\* Candle spacing of the three timeframes, in seconds.
STEP_4H == 14400

STEP_30M == 1800

STEP_5M == 300

\* A candle with open = high = low = close that gaps above its predecessor
\* after two rising closes (a quiet market): its range is zero.
FlatGap ==
    << Bar(11000, 11010, 10990, 11005), Bar(11005, 11020, 11000, 11015),
       Bar(11030, 11030, 11030, 11030), Bar(11030, 11040, 11020, 11035) >>

\* A hammer (lower wick 15 of a range of 25) whose high is exceeded by the
\* next candle, between two highs that are swept.
HammerBlock ==
    << Bar(11000, 11010, 10995, 11005), Bar(11005, 11015, 10990, 11010),
       Bar(11010, 11020, 11005, 11015), Bar(11015, 11020, 10985, 10988) >>

\* A candle that closes where it opened (the third), between two rising
\* candles when the list is read newest first.
DojiBlock ==
    << Bar(11021, 11025, 11000, 11005), Bar(11005, 11015, 10995, 11000),
       Bar(10985, 11010, 10980, 10985), Bar(10985, 11035, 10980, 11032) >>

\* The list a provider returns for a feed of blocks.
Feed(blocks, st, nf) == Extend(<<>>, Flatten(blocks), st, nf)

\* The 4H lists a provider returns: a LONG, a SHORT and a NEUTRAL history.
Feeds4H ==
    { Feed(<<BullishA, BullishA, BullishA, BearishA, BullishA>>, STEP_4H, FALSE),
      Feed(<<BullishA, BullishA, BullishA, BullishA, BearishB>>, STEP_4H, FALSE),
      Feed(<<BullishA>>, STEP_4H, FALSE) }

\* The 30M lists: a bullish order block and a bearish gap, each with a sweep
\* near it; a bullish gap with a sweep; zones without a sweep; no zone; a
\* candle of zero range; a bullish rejection block alone, and a bearish
\* order block of zero height alone, each with a sweep near it.
Feeds30M ==
    { Feed(<<BullishA, BearishA>>, STEP_30M, FALSE),
      Feed(<<BullishA, BearishA>>, STEP_30M, TRUE),
      Feed(<<BearishA>>, STEP_30M, FALSE),
      Feed(<<BullishA, BullishB>>, STEP_30M, FALSE),
      Feed(<<FlatGap>>, STEP_30M, FALSE),
      Feed(<<HammerBlock>>, STEP_30M, FALSE),
      Feed(<<DojiBlock>>, STEP_30M, TRUE) }

\* The 5M lists: a morning star, an evening star, no pattern.
Feeds5M ==
    { Feed(<<BearishB, BullishA>>, STEP_5M, FALSE),
      Feed(<<BullishB, BullishB>>, STEP_5M, FALSE),
      Feed(<<BullishA>>, STEP_5M, FALSE) }

\* What `await self.data_provider.get_candles(...)` can give: a list of the
\* menu, an empty list (OandaProvider when no candle is complete), None (a
\* provider that returns nothing), or a DataProviderError.
ProviderOutcomes(menu) ==
    { Returned(PyList(f)) : f \in menu }
    \cup { Returned(PyList(<<>>)), Returned(PyNone),
           Raised("DataProviderError", "OANDA API error: 503") }

\* Replies of the model behind _call_ai, decoded: any decision with a
\* confidence below, inside or above 0..100; the placeholder's reply; a
\* failed request; a reply that is not JSON.
Confidences == {-5, 45, 90, 120}

AiReplies ==
    { Returned([decision |-> d, confidence |-> c, reasons |-> Reasons("AI"),
                missing_conditions |-> <<>>, risk_notes |-> "AI"]) :
        d \in {"BUY", "SELL", "NO_TRADE"}, c \in Confidences }
    \cup { Returned(PlaceholderReply),
           Raised("TimeoutError", "request timed out"),
           Raised("ValueError", "Invalid JSON response from AI") }

\* An exception thrown at the given place of the call.
Thrown(at, outcome) == [at |-> at, exception |-> outcome]

\* An exception outside verify_signal ends the call in the except clause.
Fail(at, outcome) ==
    /\ stage' = "returned"
    /\ thrown' = thrown \cup {Thrown(at, outcome)}
    /\ result' = Except(outcome)

Fetch4H(outcome) ==
    /\ stage = "fetch_4h"
    /\ IF outcome.raised
       THEN Fail("get_candles", outcome) /\ UNCHANGED candles_4h
       ELSE /\ candles_4h' = outcome.value
            /\ stage' = "fetch_30m"
            /\ UNCHANGED <<thrown, result>>
    /\ UNCHANGED <<enabled, candles_30m, candles_5m, locals, stages_run>>
    /\ UNCHANGED <<detectors, returned, tasks>>

Fetch30M(outcome) ==
    /\ stage = "fetch_30m"
    /\ IF outcome.raised
       THEN Fail("get_candles", outcome) /\ UNCHANGED candles_30m
       ELSE /\ candles_30m' = outcome.value
            /\ stage' = "fetch_5m"
            /\ UNCHANGED <<thrown, result>>
    /\ UNCHANGED <<enabled, candles_4h, candles_5m, locals, stages_run>>
    /\ UNCHANGED <<detectors, returned, tasks>>

\* The last fetch; on its return the call runs on to verify_signal
\* (lines 76-110), or to the except clause.
Fetch5M(outcome) ==
    /\ stage = "fetch_5m"
    /\ IF outcome.raised
       THEN Fail("get_candles", outcome) /\ UNCHANGED <<candles_5m, locals, stages_run>>
       ELSE \E analysed \in {Analyze(candles_4h, candles_30m, outcome.value)} :
               /\ candles_5m' = outcome.value
               /\ stages_run' = Detectors(candles_4h, candles_30m, outcome.value)
               /\ IF analysed.raised
                  THEN Fail(FailedStage(candles_4h, candles_30m, outcome.value), analysed)
                       /\ UNCHANGED locals
                  ELSE /\ locals' = analysed.value
                       /\ stage' = "verify_signal"
                       /\ UNCHANGED <<thrown, result>>
    /\ UNCHANGED <<enabled, candles_4h, candles_30m>>
    /\ UNCHANGED <<detectors, returned, tasks>>

\* verify_signal returns (without a request when the verifier is disabled)
\* and the call runs to its return statement.
Verify(reply) ==
    /\ stage = "verify_signal"
    /\ stage' = "returned"
    /\ thrown' = (IF enabled /\ reply.raised THEN {Thrown("verify_signal", reply)}
                  ELSE {})
    /\ result' = Except(Conclude(locals, enabled, reply))
    /\ UNCHANGED <<enabled, candles_4h, candles_30m, candles_5m, locals, stages_run>>
    /\ UNCHANGED <<detectors, returned, tasks>>

(***************************************************************************)
(* SpecEngine: analyze_symbol against every provider and verifier outcome. *)
(***************************************************************************)
InitEng ==
    /\ lookback = SWING_LOOKBACK
    /\ step = STEP_30M
    /\ newest_first = FALSE
    /\ InitOutputs
    /\ enabled \in BOOLEAN

NextEngine ==
    \/ \E o \in ProviderOutcomes(Feeds4H) : Fetch4H(o)
    \/ \E o \in ProviderOutcomes(Feeds30M) : Fetch30M(o)
    \/ \E o \in ProviderOutcomes(Feeds5M) : Fetch5M(o)
    \/ \E r \in AiReplies : Verify(r)

SpecEngine == InitEng /\ [][NextEngine]_vars

(***************************************************************************)
(* SpecSwing: detect_swings and analyze_structure on every short feed.     *)
(***************************************************************************)
InitSwing ==
    /\ enabled = FALSE
    /\ lookback \in 1..MaxSwingLookback
    /\ step \in Steps
    /\ newest_first = FALSE
    /\ InitOutputs

NextSwing ==
    \/ \E b \in SwingBars : AppendCandle(b)
    \/ CallDetectSwings
    \/ CallAnalyzeStructure

SpecSwing == InitSwing /\ [][NextSwing]_vars

(***************************************************************************)
(* SpecStruct: the structure analyzer on feeds of up to MaxSegments blocks.*)
(***************************************************************************)
InitStruct ==
    /\ enabled = FALSE
    /\ lookback \in Lookbacks
    /\ step \in Steps
    /\ newest_first \in BOOLEAN
    /\ InitOutputs

NextStruct ==
    \/ \E seg \in Segments : AppendSegment(seg)
    \/ CallAnalyzeStructure
    \/ CallDetectBosMss
    \/ CallGetBias

SpecStruct == InitStruct /\ [][NextStruct]_vars

(***************************************************************************)
(* Claims about the swing detector and the structure analyzer              *)
(***************************************************************************)
Indices(cs) == 0..(Len(cs) - 1)

Window(i, lb) == (i - lb)..(i + lb)

InRange(cs, lb, i) == lb <= i /\ i < Len(cs) - lb

StrictHighOfWindow(cs, lb, i) ==
    \A j \in Window(i, lb) : j # i => At(cs, j).high < At(cs, i).high

StrictLowOfWindow(cs, lb, i) ==
    \A j \in Window(i, lb) : j # i => At(cs, j).low > At(cs, i).low

ReportedAt(sw, isHigh, i) ==
    \E k \in 1..Len(sw) : sw[k].is_high = isHigh /\ sw[k].candle_index = i

\* C6: detect_swings reports index i as a swing high exactly when
\* lookback <= i < len(candles) - lookback and candles[i].high is strictly
\* greater than every other high of the window [i - lookback, i + lookback]
\* (so a high that ties with another high of its window is never reported);
\* swing lows are symmetric with strictly less; every reported swing carries
\* the high (low) of its candle.
C6_SwingIffStrictExtreme ==
    pc = "detect_swings" =>
        /\ \A i \in Indices(candles) :
            /\ ReportedAt(swings, TRUE, i) <=>
                   (InRange(candles, lookback, i) /\ StrictHighOfWindow(candles, lookback, i))
            /\ ReportedAt(swings, FALSE, i) <=>
                   (InRange(candles, lookback, i) /\ StrictLowOfWindow(candles, lookback, i))
        /\ \A k \in 1..Len(swings) :
            /\ swings[k].candle_index \in Indices(candles)
            /\ swings[k].price = IF swings[k].is_high
                                 THEN At(candles, swings[k].candle_index).high
                                 ELSE At(candles, swings[k].candle_index).low

\* A feed with a reported swing high and, elsewhere, a candle that is the
\* greatest of its window only by a tie and is not reported.
C6_Witness ==
    /\ pc = "detect_swings"
    /\ \E i \in Indices(candles) : ReportedAt(swings, TRUE, i)
    /\ \E i \in Indices(candles) :
        /\ InRange(candles, lookback, i)
        /\ \A j \in Window(i, lookback) : At(candles, j).high <= At(candles, i).high
        /\ \E j \in Window(i, lookback) : j # i /\ At(candles, j).high = At(candles, i).high
        /\ ~ReportedAt(swings, TRUE, i)

HasEvent(evs, type) == \E k \in 1..Len(evs) : evs[k].event_type = type

BreaksAbove(cs, sp, i) ==
    sp # None /\ i >= 0 /\ i < Len(cs) /\ i > sp.candle_index /\ At(cs, i).close > sp.price

BreaksBelow(cs, sp, i) ==
    sp # None /\ i >= 0 /\ i < Len(cs) /\ i > sp.candle_index /\ At(cs, i).close < sp.price

\* C7: detect_bos_mss never returns a BOS_UP event when the trend of the
\* market structure of its candles is downtrend, and never a BOS_DOWN event
\* when that trend is uptrend.
C7_BosRequiresTrend ==
    pc = "detect_bos_mss" =>
        LET st == AnalyzeStructure(candles, lookback)
        IN /\ HasEvent(events, "BOS_UP") => st.trend # "downtrend"
           /\ HasEvent(events, "BOS_DOWN") => st.trend # "uptrend"

\* A downtrend feed in which a scanned candle closes above the last swing
\* high, and detect_bos_mss returned events, none of them a BOS_UP.
C7_Witness ==
    /\ pc = "detect_bos_mss"
    /\ events # <<>>
    /\ LET st == AnalyzeStructure(candles, lookback)
       IN /\ st.trend = "downtrend"
          /\ \E i \in SKIP_CANDLES..(Len(candles) - 1) :
                 BreaksAbove(candles, st.last_swing_high, i)

\* C8: detect_bos_mss returns an MSS_UP event only when the trend is
\* downtrend and the structure holds at least 2 lower lows, an MSS_DOWN
\* event only when the trend is uptrend and the structure holds at least 2
\* higher highs; every MSS event has confidence 0.8.
C8_MssRequiresCounterEvidence ==
    pc = "detect_bos_mss" =>
        LET st == AnalyzeStructure(candles, lookback)
        IN \A k \in 1..Len(events) :
            /\ events[k].event_type = "MSS_UP" =>
                   st.trend = "downtrend" /\ Len(st.lower_lows) >= 2
            /\ events[k].event_type = "MSS_DOWN" =>
                   st.trend = "uptrend" /\ Len(st.higher_highs) >= 2
            /\ events[k].event_type \in {"MSS_UP", "MSS_DOWN"} =>
                   events[k].confidence = 80

\* detect_bos_mss returned an MSS_UP event.
C8_Witness ==
    /\ pc = "detect_bos_mss"
    /\ HasEvent(events, "MSS_UP")

\* The feed of test_bullish_bos_detection: 8 candles 30 minutes apart,
\* oldest first.
BullishBosFeed == Extend(<<>>, BullishA \o BullishB, 1800, FALSE)

\* C9: whenever a candle after the recorded swing high closes above that
\* swing high's price and the trend is not downtrend, detect_bos_mss returns
\* a BOS_UP event with swing_level = the swing high's price and price = that
\* close; symmetrically a close below the swing low (trend not uptrend)
\* yields a returned BOS_DOWN; and for the 8 candles of the bullish BOS test
\* it returns a BOS_UP with swing_level 1.1030 and price 1.1032.
C9_BosOnEveryBreak ==
    pc = "detect_bos_mss" =>
        LET st == AnalyzeStructure(candles, lookback)
        IN /\ \A i \in Indices(candles) :
                (st.trend # "downtrend" /\ BreaksAbove(candles, st.last_swing_high, i)) =>
                    \E k \in 1..Len(events) :
                        /\ events[k].event_type = "BOS_UP"
                        /\ events[k].swing_level = st.last_swing_high.price
                        /\ events[k].price = At(candles, i).close
           /\ \A i \in Indices(candles) :
                (st.trend # "uptrend" /\ BreaksBelow(candles, st.last_swing_low, i)) =>
                    \E k \in 1..Len(events) :
                        /\ events[k].event_type = "BOS_DOWN"
                        /\ events[k].swing_level = st.last_swing_low.price
                        /\ events[k].price = At(candles, i).close
           /\ candles = BullishBosFeed =>
                \E k \in 1..Len(events) :
                    /\ events[k].event_type = "BOS_UP"
                    /\ events[k].swing_level = 11030
                    /\ events[k].price = 11032

\* C10: get_bias returns (LONG, e) exactly when the first event e of
\* detect_bos_mss is BOS_UP or MSS_UP, (SHORT, e) exactly when it is BOS_DOWN
\* or MSS_DOWN, and (NEUTRAL, None) exactly when detect_bos_mss returns no
\* event; the returned event has the greatest timestamp of all the events
\* the scan recorded.
C10_BiasMapping ==
    pc = "get_bias" =>
        LET evs == DetectBosMss(candles, lookback)
            all == AllBosMss(candles, lookback)
        IN /\ bias[1] \in {"LONG", "SHORT", "NEUTRAL"}
           /\ bias[1] = "LONG" <=> (evs # <<>> /\ evs[1].event_type \in {"BOS_UP", "MSS_UP"})
           /\ bias[1] = "SHORT" <=> (evs # <<>> /\ evs[1].event_type \in {"BOS_DOWN", "MSS_DOWN"})
           /\ bias[1] = "NEUTRAL" <=> evs = <<>>
           /\ bias[1] = "NEUTRAL" => bias[2] = None
           /\ bias[1] # "NEUTRAL" =>
                /\ bias[2] = evs[1]
                /\ \A k \in 1..Len(all) : all[k].timestamp <= bias[2].timestamp

\* get_bias returned LONG on an MSS_UP that is not the first event scanned.
C10_Witness ==
    /\ pc = "get_bias"
    /\ bias[1] = "LONG"
    /\ bias[2].event_type = "MSS_UP"
    /\ Len(AllBosMss(candles, lookback)) > MAX_EVENTS
    /\ AllBosMss(candles, lookback)[1] # bias[2]

(***************************************************************************)
(* SpecLiq: the liquidity detector on feeds of up to MaxSegments blocks.   *)
(***************************************************************************)
InitLiq ==
    /\ enabled = FALSE
    /\ lookback = SWING_LOOKBACK
    /\ step \in Steps
    /\ newest_first \in BOOLEAN
    /\ InitOutputs

NextLiq ==
    \/ \E seg \in Segments : AppendSegment(seg)
    \/ CallFindLiquidityPools
    \/ CallDetectSweeps

SpecLiq == InitLiq /\ [][NextLiq]_vars

SweptPool(s) == pools[s.pool_index + 1]

\* What a sweep records of its two candles.
SweepRecordsItsCandles(s) ==
    /\ s.pierce_index \in Indices(candles)
    /\ s.candle_index \in Indices(candles)
    /\ s.sweep_price = (IF s.pool_type \in LowPools
                        THEN At(candles, s.pierce_index).low
                        ELSE At(candles, s.pierce_index).high)
    /\ s.rejection_price = At(candles, s.candle_index).close
    /\ s.timestamp = At(candles, s.candle_index).timestamp
    /\ s.pool_price = SweptPool(s).price_level

\* C5 as stated: for every sweep detect_sweeps returns, the rejection
\* candle's index is strictly greater than the piercing candle's index,
\* which is strictly greater than the greatest touch index of the pool.
C5_SweepOrderingStrict ==
    pc = "detect_sweeps" =>
        \A k \in 1..Len(sweeps) :
            /\ sweeps[k].candle_index > sweeps[k].pierce_index
            /\ sweeps[k].pierce_index > LatestTouchIndex(SweptPool(sweeps[k]))

\* C5 as amended: the rejection candle is the piercing candle itself or one
\* of the 4 candles after it (candle_index >= the piercing index and less
\* than the piercing index + 5), and the piercing candle's index is strictly
\* greater than the greatest touch index of the swept pool.
C5_SweepOrdering ==
    pc = "detect_sweeps" =>
        \A k \in 1..Len(sweeps) :
            /\ SweepRecordsItsCandles(sweeps[k])
            /\ sweeps[k].candle_index >= sweeps[k].pierce_index
            /\ sweeps[k].candle_index < sweeps[k].pierce_index + 5
            /\ sweeps[k].pierce_index > LatestTouchIndex(SweptPool(sweeps[k]))
            /\ \A t \in 1..Len(SweptPool(sweeps[k]).touches) :
                   SweptPool(sweeps[k]).touches[t][2] < sweeps[k].pierce_index

\* detect_sweeps returned a sweep whose rejection candle is its piercing
\* candle and a sweep whose rejection candle comes later.
C5_Witness ==
    /\ pc = "detect_sweeps"
    /\ \E k \in 1..Len(sweeps) : sweeps[k].candle_index = sweeps[k].pierce_index
    /\ \E k \in 1..Len(sweeps) : sweeps[k].candle_index > sweeps[k].pierce_index

(***************************************************************************)
(* SpecGate: _make_deterministic_decision on every combination of bias,    *)
(* POI, sweep and confirmation.                                            *)
(***************************************************************************)
\* The values get_bias returns.
Biases == {"LONG", "SHORT", "NEUTRAL"}

PoiTypes == {"OB", "FVG", "BREAKER", "RB"}

\* Optional[POIResult]: no POI, or one of either direction and any type.
GatePois ==
    {None} \cup {POIResult(type, 11020, 11005, 3600, 2, ONE, isBullish) :
                    type \in PoiTypes, isBullish \in BOOLEAN}

\* Optional[LiquiditySweep]: no sweep, or one detect_sweeps reports.
GateSweeps ==
    LET cs == Feed(<<BullishA, BearishA>>, STEP_30M, FALSE)
        found == DetectSweeps(cs, FindLiquidityPools(cs))
    IN {None} \cup {found[k] : k \in 1..Min(1, Len(found))}

\* Optional[ConfirmationPattern]: none, or the newest get_confirmations
\* reports.
GateConfirmations ==
    LET found == GetConfirmations(Feed(<<BearishB, BullishA>>, STEP_5M, FALSE), "LONG")
    IN {None} \cup {found[k] : k \in 1..Min(1, Len(found))}

InitGate ==
    /\ lookback = SWING_LOOKBACK
    /\ step = STEP_30M
    /\ newest_first = FALSE
    /\ InitDetectors
    /\ enabled = FALSE
    /\ stage = "fetch_4h"
    /\ candles_4h = Unbound
    /\ candles_30m = Unbound
    /\ candles_5m = Unbound
    /\ stages_run = {}
    /\ thrown = {}
    /\ result = None
    /\ locals \in [bias_4h : Biases, best_poi : GatePois,
                   relevant_sweep : GateSweeps,
                   best_confirmation : GateConfirmations]

\* Lines 99-101 of analyze_symbol.
CallMakeDeterministicDecision ==
    /\ pc = "input"
    /\ pc' = "make_deterministic_decision"
    /\ locals' = [bias_4h |-> locals.bias_4h,
                  best_poi |-> locals.best_poi,
                  relevant_sweep |-> locals.relevant_sweep,
                  best_confirmation |-> locals.best_confirmation,
                  deterministic_decision |->
                      MakeDeterministicDecision(locals.bias_4h, locals.best_poi,
                                                locals.relevant_sweep,
                                                locals.best_confirmation)]
    /\ UNCHANGED <<feed, swings, structure, events, bias, pools, sweeps>>
    /\ UNCHANGED <<enabled, stage, candles_4h, candles_30m, candles_5m, stages_run,
                   thrown, result, returned, tasks>>

NextGate == CallMakeDeterministicDecision

SpecGate == InitGate /\ [][NextGate]_vars

\* The four gate conditions of a BUY: LONG bias, a bullish POI, a sweep and
\* a confirmation.
BuySetup(loc) ==
    /\ loc.bias_4h = "LONG"
    /\ loc.best_poi # None
    /\ loc.best_poi.is_bullish
    /\ loc.relevant_sweep # None
    /\ loc.best_confirmation # None

\* The four gate conditions of a SELL: SHORT bias, a bearish POI, a sweep
\* and a confirmation.
SellSetup(loc) ==
    /\ loc.bias_4h = "SHORT"
    /\ loc.best_poi # None
    /\ ~loc.best_poi.is_bullish
    /\ loc.relevant_sweep # None
    /\ loc.best_confirmation # None

\* C1: _make_deterministic_decision returns BUY exactly when the bias is
\* LONG, a POI exists and is bullish, a sweep exists and a confirmation
\* exists; SELL exactly when the bias is SHORT, a POI exists and is bearish,
\* a sweep exists and a confirmation exists; NO_TRADE for every other
\* combination, in particular whenever the sweep is absent.
C1_DecisionGate ==
    pc = "make_deterministic_decision" =>
        /\ locals.deterministic_decision \in {"BUY", "SELL", "NO_TRADE"}
        /\ locals.deterministic_decision = "BUY" <=> BuySetup(locals)
        /\ locals.deterministic_decision = "SELL" <=> SellSetup(locals)
        /\ locals.relevant_sweep = None => locals.deterministic_decision = "NO_TRADE"

\* LONG bias, a bullish POI and a confirmation but no sweep: NO_TRADE.
C1_Witness ==
    /\ pc = "make_deterministic_decision"
    /\ locals.bias_4h = "LONG"
    /\ locals.best_poi # None
    /\ locals.best_poi.is_bullish
    /\ locals.best_confirmation # None
    /\ locals.relevant_sweep = None
    /\ locals.deterministic_decision = "NO_TRADE"

\* The call has returned after verify_signal.
Verified == stage = "returned" /\ locals # Unbound

\* C2: whatever the AI verifier replies, the decision of the returned
\* SignalResult is BUY only if the bias is LONG and a bullish POI, a sweep
\* and a confirmation are present, and SELL only if the bias is SHORT and a
\* bearish POI, a sweep and a confirmation are present; with any condition
\* missing the decision is NO_TRADE.
C2_VerifierFloor ==
    Verified =>
        /\ result.value.decision = "BUY" => BuySetup(locals)
        /\ result.value.decision = "SELL" => SellSetup(locals)

\* The result _create_error_result builds for the message: NO_TRADE,
\* confidence 0, bias ERROR, no trade plan, the message in ai_reasons and
\* risk_notes.
IsErrorResult(r, message) ==
    /\ r.decision = "NO_TRADE"
    /\ r.confidence = 0
    /\ r.bias = "ERROR"
    /\ r.entry_zone = None
    /\ r.invalidation_level = None
    /\ r.target1 = None
    /\ r.target2 = None
    /\ r.ai_reasons = [error |-> message]
    /\ r.risk_notes = "Analysis failed: " \o message

\* The result after an exception inside verify_signal: the deterministic
\* decision at confidence 60 (a trade) or 40 (NO_TRADE), the analysed bias,
\* the message in risk_notes.
IsVerifierFallback(r, loc, message) ==
    /\ r.decision = loc.deterministic_decision
    /\ r.confidence = (IF loc.deterministic_decision # "NO_TRADE" THEN 60 ELSE 40)
    /\ r.bias = loc.bias_4h
    /\ r.ai_reasons = Reasons("AI verification failed")
    /\ r.risk_notes = "AI verification error: " \o message

\* C3 as stated: analyze_symbol never raises, and whichever stage throws (a
\* provider error, a detector failure, a verifier failure) the call returns
\* the error result carrying the exception message.
C3_ErrorResultOnEveryFailure ==
    stage = "returned" =>
        /\ ~result.raised
        /\ \A t \in thrown : IsErrorResult(result.value, t.exception.message)

\* C3: analyze_symbol never raises.  An exception of a fetch, of the check
\* of the fetched lists or of a detector gives the error result carrying
\* the exception message; an exception inside verify_signal is absorbed
\* there and gives the deterministic decision at confidence 60 or 40 with
\* the analysed bias, not the error result.
C3_NeverRaises ==
    stage = "returned" =>
        /\ ~result.raised
        /\ \A t \in thrown :
              IF t.at = "verify_signal"
              THEN IsVerifierFallback(result.value, locals, t.exception.message)
              ELSE IsErrorResult(result.value, t.exception.message)

\* Order-block detection divided by the zero range of a flat candle, and
\* the call returned the error result with the message of the division.
C3_Witness ==
    /\ stage = "returned"
    /\ ~result.raised
    /\ \E t \in thrown :
          /\ t.at = "get_all_pois"
          /\ t.exception.type = "ZeroDivisionError"
          /\ IsErrorResult(result.value, t.exception.message)

\* A fetch of the call returned an empty list or None.
MissingData ==
    \E c \in {candles_4h, candles_30m, candles_5m} : c # Unbound /\ ~Truthy(c)

\* A fetch of the call raised.
FetchFailed == \E t \in thrown : t.at = "get_candles"

\* The message of the exception that ended a call whose data is missing.
MissingDataMessage ==
    IF FetchFailed THEN (CHOOSE t \in thrown : t.at = "get_candles").exception.message
    ELSE "Insufficient data for " \o SYMBOL

\* C4: when a fetch returns an empty list or None, or a fetch fails, no
\* detector stage runs and the call returns exactly the error result
\* (NO_TRADE, confidence 0, bias ERROR, liquidity_sweep False, every POI,
\* confirmation and trade-plan field None): nothing partially analysed.
C4_FailFast ==
    (stage = "returned" /\ (MissingData \/ FetchFailed)) =>
        /\ stages_run = {}
        /\ locals = Unbound
        /\ result = Returned(CreateErrorResult(MissingDataMessage))

\* The 4H and 5M fetches returned candles, the 30M fetch an empty list, and
\* the call returned the error result without running a detector.
C4_Witness ==
    /\ stage = "returned"
    /\ candles_4h # Unbound
    /\ Truthy(candles_4h)
    /\ candles_30m = PyList(<<>>)
    /\ candles_5m # Unbound
    /\ Truthy(candles_5m)
    /\ stages_run = {}
    /\ result = Returned(CreateErrorResult("Insufficient data for " \o SYMBOL))

(***************************************************************************)
(* Detectors called on their own: the value a call returns is kept in      *)
(* `returned`.                                                             *)
(***************************************************************************)
\* One more candle on a feed of fewer than limit candles.
AppendBar(b, limit) ==
    /\ pc = "input"
    /\ Len(candles) < limit
    /\ candles' = Extend(candles, <<b>>, step, newest_first)
    /\ UNCHANGED <<lookback, step, newest_first, pc, swings, structure, events, bias,
                   pools, sweeps>>
    /\ UNCHANGED <<engine, returned, tasks>>

\* The call of the named detector on the feed returns the value; the feed
\* is an argument the detectors only read.
CallDetector(name, value) ==
    /\ pc = "input"
    /\ pc' = name
    /\ returned' = value
    /\ UNCHANGED <<feed, swings, structure, events, bias, pools, sweeps>>
    /\ UNCHANGED <<engine, tasks>>

(***************************************************************************)
(* SpecFvg: detect_fvg on feeds of up to MaxFvgCandles candles whose highs *)
(* and lows lie 0.0001 to 0.0004 apart (the prices of                      *)
(* test_small_gap_ignored), so that gaps below, at and above FVG_TOLERANCE *)
(* occur.                                                                  *)
(***************************************************************************)
\* Bound: the number of candles of an FVG feed.
MaxFvgCandles == 4

\* Lows and highs around 1.1000, in units of 0.0001.
FvgLows == {11000, 11002, 11003}

FvgHighs == {11001, 11003, 11004}

\* Candles with low <= high; open at the low, close at the high.
FvgBars == {b \in {Bar(l, h, l, h) : l \in FvgLows, h \in FvgHighs} : b[3] <= b[2]}

CallDetectFvg == CallDetector("detect_fvg", DetectFvg(candles))

InitFvg ==
    /\ enabled = FALSE
    /\ lookback = SWING_LOOKBACK
    /\ step = STEP_30M
    /\ newest_first \in BOOLEAN
    /\ InitOutputs

NextFvg ==
    \/ \E b \in FvgBars : AppendBar(b, MaxFvgCandles)
    \/ CallDetectFvg

SpecFvg == InitFvg /\ [][NextFvg]_vars

\* An FVG of the given direction is reported for the triple ending at i,
\* with the given edges.
FvgReported(fvgs, i, isBullish, top, bottom) ==
    \E k \in 1..Len(fvgs) :
        /\ fvgs[k].candle_index = i - 1
        /\ fvgs[k].is_bullish = isBullish
        /\ fvgs[k].top = top
        /\ fvgs[k].bottom = bottom

\* Some FVG of the given direction is reported for the triple ending at i.
FvgAt(fvgs, i, isBullish) ==
    \E k \in 1..Len(fvgs) :
        fvgs[k].candle_index = i - 1 /\ fvgs[k].is_bullish = isBullish

\* C11: for every index i >= 2, detect_fvg reports a bullish FVG for the
\* triple (i-2, i-1, i) exactly when candles[i-2].high < candles[i].low and
\* the gap exceeds FVG_TOLERANCE, with bottom = candles[i-2].high and
\* top = candles[i].low; a bearish FVG exactly when candles[i-2].low >
\* candles[i].high and the gap exceeds the tolerance, with top =
\* candles[i-2].low and bottom = candles[i].high; every returned FVG has
\* bottom < top and top - bottom > tolerance, and belongs to such a triple.
C11_FvgDefinition ==
    pc = "detect_fvg" =>
        /\ \A i \in 2..(Len(candles) - 1) :
              LET candle1 == At(candles, i - 2)
                  candle3 == At(candles, i)
              IN /\ FvgAt(returned, i, TRUE) <=>
                        (/\ candle1.high < candle3.low
                         /\ candle3.low - candle1.high > FVG_TOLERANCE)
                 /\ FvgAt(returned, i, TRUE) =>
                        FvgReported(returned, i, TRUE, candle3.low, candle1.high)
                 /\ FvgAt(returned, i, FALSE) <=>
                        (/\ candle1.low > candle3.high
                         /\ candle1.low - candle3.high > FVG_TOLERANCE)
                 /\ FvgAt(returned, i, FALSE) =>
                        FvgReported(returned, i, FALSE, candle1.low, candle3.high)
        /\ \A k \in 1..Len(returned) :
              /\ returned[k].bottom < returned[k].top
              /\ returned[k].top - returned[k].bottom > FVG_TOLERANCE
              /\ returned[k].candle_index + 1 \in 2..(Len(candles) - 1)
        /\ Len(candles) < 3 => returned = <<>>

\* A feed with a reported bullish FVG and, elsewhere, a gap of exactly the
\* tolerance that is not reported.
C11_Witness ==
    /\ pc = "detect_fvg"
    /\ \E k \in 1..Len(returned) : returned[k].is_bullish
    /\ \E i \in 2..(Len(candles) - 1) :
          /\ At(candles, i).low - At(candles, i - 2).high = FVG_TOLERANCE
          /\ ~FvgAt(returned, i, TRUE)

(***************************************************************************)
(* SpecShort: every detector on histories growing candle by candle from    *)
(* empty to 20 candles, below and above each detector's minimum window.    *)
(***************************************************************************)
\* Histories of 20 candles: a rising one, one that turns down at its end,
\* and one that opens with a candle of zero range.
Tapes ==
    { Feed(<<BullishA, BullishA, BullishA, BearishA, BullishA>>, STEP_30M, FALSE),
      Feed(<<BullishA, BullishA, BullishA, BullishA, BearishB>>, STEP_30M, FALSE),
      Feed(<<FlatGap, BullishA, BullishB, BearishA, BearishB>>, STEP_30M, FALSE) }

\* The next candle of the history.
AppendFromTape(tape) ==
    /\ pc = "input"
    /\ Len(candles) < Len(tape)
    /\ candles = Take(tape, Len(candles))
    /\ candles' = Take(tape, Len(candles) + 1)
    /\ UNCHANGED <<lookback, step, newest_first, pc, swings, structure, events, bias,
                   pools, sweeps>>
    /\ UNCHANGED <<engine, returned, tasks>>

InitShort ==
    /\ enabled = FALSE
    /\ lookback \in Lookbacks
    /\ step = STEP_30M
    /\ newest_first = FALSE
    /\ InitOutputs

NextShort ==
    \/ \E tape \in Tapes : AppendFromTape(tape)
    \/ CallDetector("detect_swings", Returned(DetectSwings(candles, lookback)))
    \/ CallDetector("analyze_structure", Returned(AnalyzeStructure(candles, lookback)))
    \/ CallDetector("detect_bos_mss", Returned(DetectBosMss(candles, lookback)))
    \/ CallDetector("detect_fvg", Returned(DetectFvg(candles)))
    \/ CallDetector("detect_order_blocks", DetectOrderBlocks(candles))
    \/ CallDetector("detect_morning_star", Returned(DetectMorningStar(candles)))
    \/ CallDetector("detect_evening_star", Returned(DetectEveningStar(candles)))
    \/ CallDetector("detect_break_entry", Returned(DetectBreakEntry(candles)))
    \/ CallDetector("find_liquidity_pools", Returned(FindLiquidityPools(candles)))
    \/ \E tape \in Tapes :
          CallDetector("detect_sweeps",
                       Returned(DetectSweeps(candles, FindLiquidityPools(tape))))

SpecShort == InitShort /\ [][NextShort]_vars

\* The minimum window of the detectors that have one: fewer candles give
\* an empty result.
MinimumWindow(name, lb) ==
    CASE name = "detect_swings" -> 2 * lb + 1
      [] name = "detect_bos_mss" -> 20
      [] name \in {"detect_fvg", "detect_order_blocks", "detect_morning_star",
                   "detect_evening_star"} -> 3
      [] name = "detect_break_entry" -> 11
      [] name \in {"find_liquidity_pools", "detect_sweeps"} -> 1
      [] OTHER -> 0

\* C12: a detector given fewer candles than its minimum window returns an
\* empty result and does not fail: detect_swings below 2 * lookback + 1
\* candles, detect_bos_mss below 20, detect_fvg, detect_order_blocks and
\* the morning and evening star below 3, detect_break_entry below 11,
\* find_liquidity_pools and detect_sweeps on an empty sequence; and
\* analyze_structure on a sequence without swings returns trend sideways
\* with both last swings None and all four lists empty.
C12_ShortHistoryIsEmpty ==
    /\ (pc # "input" /\ Len(candles) < MinimumWindow(pc, lookback)) =>
           returned = Returned(<<>>)
    /\ (pc = "analyze_structure" /\ DetectSwings(candles, lookback) = <<>>) =>
           returned = Returned([trend |-> "sideways",
                                last_swing_high |-> None,
                                last_swing_low |-> None,
                                higher_highs |-> <<>>,
                                higher_lows |-> <<>>,
                                lower_highs |-> <<>>,
                                lower_lows |-> <<>>])

\* detect_bos_mss on 19 candles that hold swings: the result is empty.
C12_Witness ==
    /\ pc = "detect_bos_mss"
    /\ Len(candles) = 19
    /\ DetectSwings(candles, lookback) # <<>>
    /\ returned = Returned(<<>>)

(***************************************************************************)
(* SpecVerify: verify_signal on the analysis data and the deterministic    *)
(* decision of an analysis, for a verifier enabled or not and every reply. *)
(***************************************************************************)
\* A POI of each direction.
VerifyPois ==
    {None, POIResult("OB", 11020, 11005, 3600, 2, ONE, TRUE),
     POIResult("FVG", 11020, 11005, 3600, 2, ONE, FALSE)}

\* Lines 98-107 of analyze_symbol on the outcome of the detector stages:
\* the two arguments of verify_signal.
VerifyArguments(bias_4h, poi, sweep, confirmation) ==
    [deterministic_decision |->
         MakeDeterministicDecision(bias_4h, poi, sweep, confirmation),
     analysis_data |->
         PrepareAnalysisData(bias_4h, AnalyzeStructure(<<>>, SWING_LOOKBACK), poi,
                             sweep, confirmation, None)]

InitVerify ==
    /\ lookback = SWING_LOOKBACK
    /\ step = STEP_30M
    /\ newest_first = FALSE
    /\ InitDetectors
    /\ enabled \in BOOLEAN
    /\ stage = "verify_signal"
    /\ candles_4h = Unbound
    /\ candles_30m = Unbound
    /\ candles_5m = Unbound
    /\ stages_run = {}
    /\ thrown = {}
    /\ result = None
    /\ locals \in {VerifyArguments(b, poi, sweep, confirmation) :
                      b \in Biases, poi \in VerifyPois, sweep \in GateSweeps,
                      confirmation \in GateConfirmations}

\* verify_signal is called and returns; an exception of the request or of
\* the parsing is noted in thrown.
CallVerifySignal(reply) ==
    /\ pc = "input"
    /\ pc' = "verify_signal"
    /\ thrown' = (IF enabled /\ reply.raised THEN {Thrown("verify_signal", reply)}
                  ELSE {})
    /\ returned' = Returned(VerifySignal(enabled, reply, locals.analysis_data,
                                         locals.deterministic_decision))
    /\ UNCHANGED <<feed, swings, structure, events, bias, pools, sweeps>>
    /\ UNCHANGED <<enabled, stage, candles_4h, candles_30m, candles_5m, locals,
                   stages_run, result, tasks>>

NextVerify == \E reply \in AiReplies : CallVerifySignal(reply)

SpecVerify == InitVerify /\ [][NextVerify]_vars

\* verify_signal returned the deterministic decision with the confidence
\* for a trade or for NO_TRADE.
FellBack(trade_confidence, no_trade_confidence) ==
    /\ ~returned.raised
    /\ returned.value.decision = locals.deterministic_decision
    /\ returned.value.confidence =
           (IF locals.deterministic_decision \in {"BUY", "SELL"}
            THEN trade_confidence ELSE no_trade_confidence)

\* C13 as stated: whenever the verifier is disabled or its call or parse
\* step fails, verify_signal returns the deterministic decision with
\* confidence exactly 70 (BUY, SELL) or 50 (NO_TRADE), and never raises.
C13_FallbackSeventyFifty ==
    (pc = "verify_signal" /\ (~enabled \/ thrown # {})) => FellBack(70, 50)

\* C13: verify_signal never raises and falls back to the deterministic
\* decision unchanged: with confidence 70 (BUY, SELL) or 50 (NO_TRADE) when
\* the verifier is disabled, and with confidence 60 (BUY, SELL) or 40
\* (NO_TRADE) when its call or parse step fails.
C13_VerifierFallback ==
    pc = "verify_signal" =>
        /\ ~returned.raised
        /\ ~enabled => FellBack(70, 50)
        /\ (enabled /\ thrown # {}) => FellBack(60, 40)

\* The request of an enabled verifier failed on a BUY analysis: BUY at 60.
C13_Witness ==
    /\ pc = "verify_signal"
    /\ enabled
    /\ thrown # {}
    /\ locals.deterministic_decision = "BUY"
    /\ returned.value.decision = "BUY"
    /\ returned.value.confidence = 60

(***************************************************************************)
(* Trend of the MarketStructure returned by analyze_structure (SpecStruct) *)
(***************************************************************************)
RisingLists(ms) == ms.higher_highs # <<>> /\ ms.higher_lows # <<>>

FallingLists(ms) == ms.lower_highs # <<>> /\ ms.lower_lows # <<>>

\* C14 as stated: trend is uptrend iff higher_highs and higher_lows are both
\* non-empty, downtrend iff lower_highs and lower_lows are both non-empty,
\* and sideways otherwise.
C14_TrendIffLists ==
    pc = "analyze_structure" =>
        /\ structure.trend = "uptrend" <=> RisingLists(structure)
        /\ structure.trend = "downtrend" <=> FallingLists(structure)
        /\ structure.trend = "sideways" <=>
               (~RisingLists(structure) /\ ~FallingLists(structure))

\* C14: trend is uptrend iff higher_highs and higher_lows are both
\* non-empty; downtrend iff lower_highs and lower_lows are both non-empty
\* and higher_highs or higher_lows is empty; sideways otherwise.
C14_TrendClassification ==
    pc = "analyze_structure" =>
        /\ structure.trend \in {"uptrend", "downtrend", "sideways"}
        /\ structure.trend = "uptrend" <=> RisingLists(structure)
        /\ structure.trend = "downtrend" <=>
               (FallingLists(structure) /\ ~RisingLists(structure))
        /\ structure.trend = "sideways" <=>
               (~RisingLists(structure) /\ ~FallingLists(structure))

\* A structure with all four lists non-empty: it is an uptrend.
C14_Witness ==
    /\ pc = "analyze_structure"
    /\ RisingLists(structure)
    /\ FallingLists(structure)
    /\ structure.trend = "uptrend"

(***************************************************************************)
(* SpecConf: get_confirmations on 5M histories, called with each bias as   *)
(* in test_bias_filtering.                                                 *)
(***************************************************************************)
\* Free choice of the first candles, then a run of rejection candles.
MaxConfCandles == 4
MaxConfRun == 12

\* Candles (open, high, low, close) without wicks, a small candle inside
\* their body, and rejection candles that close beyond their midpoint.
BearBody == Bar(11020, 11020, 11000, 11000)
BullBody == Bar(11000, 11020, 11000, 11020)
InsideBar == Bar(11009, 11012, 11008, 11011)
Hammer == Bar(11014, 11016, 11000, 11016)
ShootingStar == Bar(11006, 11020, 11004, 11004)

ConfBars == {BearBody, BullBody, InsideBar, Hammer, ShootingStar}

ConfBiases == {"LONG", "SHORT", "NEUTRAL"}

CallGetConfirmations ==
    CallDetector("get_confirmations",
                 [b \in ConfBiases |-> GetConfirmations(candles, b)])

InitConf ==
    /\ enabled = FALSE
    /\ lookback = SWING_LOOKBACK
    /\ step = STEP_5M
    /\ newest_first \in BOOLEAN
    /\ InitOutputs

NextConf ==
    \/ \E b \in ConfBars : AppendBar(b, MaxConfCandles)
    \/ AppendBar(Hammer, MaxConfRun)
    \/ CallGetConfirmations

SpecConf == InitConf /\ [][NextConf]_vars

\* The elements of a list.
Range(s) == {s[i] : i \in DOMAIN s}

\* The patterns of the four scanners that a bias lets through.
Wanted(cs, b) ==
    {p \in Range(DetectMorningStar(cs)) \cup Range(DetectEveningStar(cs))
           \cup Range(DetectBreakEntry(cs)) \cup Range(DetectRejectionCandle(cs)) :
        /\ b = "LONG" => p.is_bullish
        /\ b = "SHORT" => ~p.is_bullish}

\* p comes before q in (timestamp, confidence) descending order, or ties.
NotAfter(p, q) ==
    \/ p.timestamp > q.timestamp
    \/ p.timestamp = q.timestamp /\ ~RatioGreater(q.confidence, p.confidence)

\* C15: get_confirmations returns only bullish patterns for LONG, only
\* bearish ones for SHORT and patterns of both directions for another bias
\* (at least as many as for LONG or SHORT); the result holds the scanners'
\* patterns ordered by (timestamp, confidence) descending, at most 10 of
\* them, and its first entry is the newest pattern, the one of highest
\* confidence among those of its timestamp.
C15_ConfirmationsFilteredAndRanked ==
    pc = "get_confirmations" =>
        /\ \A i \in DOMAIN returned.LONG : returned.LONG[i].is_bullish
        /\ \A i \in DOMAIN returned.SHORT : ~returned.SHORT[i].is_bullish
        /\ Len(returned.NEUTRAL) >= Len(returned.LONG)
        /\ Len(returned.NEUTRAL) >= Len(returned.SHORT)
        /\ \A b \in ConfBiases :
              /\ Range(returned[b]) \subseteq Wanted(candles, b)
              /\ Len(returned[b]) =
                     Min(MAX_CONFIRMATIONS, Cardinality(Wanted(candles, b)))
              /\ Cardinality(Range(returned[b])) = Len(returned[b])
              /\ \A i, j \in DOMAIN returned[b] :
                     i < j => NotAfter(returned[b][i], returned[b][j])
              /\ \A p \in Wanted(candles, b) :
                     returned[b] # <<>> /\ NotAfter(returned[b][1], p)

\* More than 10 patterns of both directions were found: the 10 newest are
\* returned, and two of them share a timestamp.
C15_Witness ==
    /\ pc = "get_confirmations"
    /\ Cardinality(Wanted(candles, "NEUTRAL")) > MAX_CONFIRMATIONS
    /\ Len(returned.NEUTRAL) = MAX_CONFIRMATIONS
    /\ \E i, j \in DOMAIN returned.NEUTRAL :
          /\ i < j
          /\ returned.NEUTRAL[i].timestamp = returned.NEUTRAL[j].timestamp
          /\ RatioGreater(returned.NEUTRAL[i].confidence,
                          returned.NEUTRAL[j].confidence)
    /\ returned.LONG # <<>>
    /\ returned.SHORT # <<>>

(***************************************************************************)
(* SpecBreak: detect_break_entry on the sequences of the break-entry       *)
(* tests, alone and after ten older candles, and on breaks whose retest    *)
(* touches the broken level.                                               *)
(***************************************************************************)
\* candles of test_break_entry_bullish
BullishBreakTest ==
    <<Bar(11000, 11010, 10990, 11005), Bar(11005, 11015, 10995, 11010),
      Bar(11010, 11020, 11000, 11015), Bar(11015, 11025, 11005, 11020),
      Bar(11020, 11035, 11015, 11032), Bar(11032, 11038, 11020, 11025),
      Bar(11025, 11030, 11022, 11028)>>

\* candles of test_break_entry_bearish
BearishBreakTest ==
    <<Bar(11030, 11040, 11020, 11025), Bar(11025, 11030, 11010, 11015),
      Bar(11015, 11020, 11000, 11005), Bar(11005, 11010, 10990, 10995),
      Bar(10995, 11000, 10980, 10985), Bar(10985, 10995, 10980, 10988),
      Bar(10988, 10992, 10980, 10982)>>

\* Ten candles in a range, older than the scenario that follows them.
RangeBefore == [k \in 1..BREAK_WINDOW |-> Bar(11005, 11020, 11000, 11010)]

\* A close above (below) the range and a candle whose low (high) is the
\* broken level and which closes bullish (bearish).
TouchingRetestUp == <<Bar(11010, 11030, 11008, 11028), Bar(11022, 11027, 11020, 11026)>>
TouchingRetestDown == <<Bar(11010, 11012, 10990, 10992), Bar(10998, 11000, 10993, 10994)>>

BreakTapes(st) ==
    {Feed(<<BullishBreakTest>>, st, FALSE), Feed(<<BearishBreakTest>>, st, FALSE),
     Feed(<<RangeBefore, BullishBreakTest>>, st, FALSE),
     Feed(<<RangeBefore, BearishBreakTest>>, st, FALSE),
     Feed(<<RangeBefore, TouchingRetestUp>>, st, FALSE),
     Feed(<<RangeBefore, TouchingRetestDown>>, st, FALSE)}

CallDetectBreakEntry ==
    CallDetector("detect_break_entry", Returned(DetectBreakEntry(candles)))

InitBreak ==
    /\ enabled = FALSE
    /\ lookback = SWING_LOOKBACK
    /\ step \in Steps
    /\ newest_first = FALSE
    /\ InitOutputs

NextBreak ==
    \/ \E tape \in BreakTapes(step) : AppendFromTape(tape)
    \/ CallDetectBreakEntry

SpecBreak == InitBreak /\ [][NextBreak]_vars

\* Candle i closes beyond every candle before it, and candle j, one of the
\* two candles after it, comes back from that close and closes in the
\* direction of the break.
BreakAndPullback(cs, up, i, j) ==
    /\ i >= 1
    /\ j \in {i + 1, i + 2}
    /\ IF up
       THEN /\ At(cs, i).close > MaxHigh(SubSeq(cs, 1, i))
            /\ At(cs, j).low < At(cs, i).close
            /\ At(cs, j).close > At(cs, j).open
       ELSE /\ At(cs, i).close < MinLow(SubSeq(cs, 1, i))
            /\ At(cs, j).high > At(cs, i).close
            /\ At(cs, j).close < At(cs, j).open

HasBreakEntry(patterns, up) ==
    \E k \in DOMAIN patterns :
        patterns[k].pattern_type = "BREAK_ENTRY" /\ patterns[k].is_bullish = up

\* C16 as stated: when a candle closes above the highest high (below the
\* lowest low) of the candles before it and a candle within the next two
\* pulls back and closes bullish (bearish), detect_break_entry returns a
\* BREAK_ENTRY pattern with is_bullish True (False); so it does on the
\* 7-candle sequences of the tests, where the break is at index 4.
C16_BreakEntryOnShortSequences ==
    pc = "detect_break_entry" =>
        /\ \A up \in BOOLEAN :
              (\E i, j \in Indices(candles) : BreakAndPullback(candles, up, i, j))
                  => HasBreakEntry(returned.value, up)
        /\ candles = Feed(<<BullishBreakTest>>, step, FALSE)
               => HasBreakEntry(returned.value, TRUE)
        /\ candles = Feed(<<BearishBreakTest>>, step, FALSE)
               => HasBreakEntry(returned.value, FALSE)

\* What the code does on these histories: a pattern is returned only for a
\* break at index 10 or later whose retest low (high) is the broken level.
C16_BreakEntryNeedsWindowAndTouch ==
    pc = "detect_break_entry" =>
        \A k \in DOMAIN returned.value :
            /\ returned.value[k].candle_index > BREAK_WINDOW
            /\ \E i \in BREAK_WINDOW..(returned.value[k].candle_index - 1) :
                  LET recent == SubSeq(candles, i - BREAK_WINDOW + 1, i)
                      retest == At(candles, returned.value[k].candle_index)
                  IN IF returned.value[k].is_bullish
                     THEN retest.low = MaxHigh(recent)
                     ELSE retest.high = MinLow(recent)

\* The bullish test sequence was scanned and nothing was returned.
C16_TestSequenceUndetected ==
    /\ pc = "detect_break_entry"
    /\ candles = Feed(<<BullishBreakTest>>, step, FALSE)
    /\ returned.value = <<>>

\* A retest touching the broken level was returned.
C16_TouchDetected ==
    /\ pc = "detect_break_entry"
    /\ HasBreakEntry(returned.value, TRUE)

(***************************************************************************)
(* Trade plan of the SignalResult returned by analyze_symbol (SpecEngine)  *)
(***************************************************************************)
\* The plan the statement describes for a BUY or SELL taken at poi.
PlanAtAdverseEdge(decision, poi, structure_4h, r) ==
    /\ poi # None
    /\ r.entry_zone = Some(Zone(poi))
    /\ r.invalidation_level =
           Some(Format5(Ratio(IF decision = "BUY" THEN poi.zone_low
                              ELSE poi.zone_high, 1)))
    /\ LET swing == IF decision = "BUY" THEN structure_4h.last_swing_high
                    ELSE structure_4h.last_swing_low
       IN swing # None /\ r.target1 = Some(Format5(Ratio(swing.price, 1)))

NoPlan(r) ==
    /\ r.entry_zone = None
    /\ r.invalidation_level = None
    /\ r.target1 = None
    /\ r.target2 = None

\* C17 as stated: in every SignalResult the four plan fields are None when
\* decision is NO_TRADE; when decision is BUY or SELL, entry_zone is the
\* selected POI's zone, invalidation_level is zone_low for BUY and zone_high
\* for SELL, and target1 is the last 4H swing high for BUY and the last 4H
\* swing low for SELL.
C17_TradePlanEdges ==
    (stage = "returned" /\ ~result.raised) =>
        /\ result.value.decision = "NO_TRADE" => NoPlan(result.value)
        /\ result.value.decision \in {"BUY", "SELL"} =>
               /\ locals # Unbound
               /\ PlanAtAdverseEdge(result.value.decision, locals.best_poi,
                                    locals.structure_4h, result.value)

\* The same for the results whose decision is the deterministic one
\* (verifier disabled or failed): it holds there.
C17_TradePlanOfDeterministicDecision ==
    (stage = "returned" /\ ~result.raised) =>
        /\ result.value.decision = "NO_TRADE" => NoPlan(result.value)
        /\ (/\ result.value.decision \in {"BUY", "SELL"}
            /\ locals # Unbound
            /\ result.value.decision = locals.deterministic_decision) =>
               PlanAtAdverseEdge(result.value.decision, locals.best_poi,
                                 locals.structure_4h, result.value)

\* A deterministic BUY or SELL was returned with its plan.
C17_DeterministicTrade ==
    /\ Verified
    /\ ~result.raised
    /\ result.value.decision \in {"BUY", "SELL"}
    /\ result.value.decision = locals.deterministic_decision

(***************************************************************************)
(* SpecTwice: a detector is called twice on the same candle array.  The    *)
(* array is passed by reference and the detector objects live across the   *)
(* calls, so a call is given the array, the detector's fields and the      *)
(* results of the earlier calls, and hands back the array it leaves.       *)
(***************************************************************************)
MaxCalls == 2

DetectorNames ==
    {"detect_swings", "analyze_structure", "detect_bos_mss", "get_all_pois",
     "find_liquidity_pools", "detect_sweeps", "get_confirmations"}

\* The outcome of one detector on candles cs, lookback lb.
Detect(name, cs, lb) ==
    CASE name = "detect_swings" -> Returned(DetectSwings(cs, lb))
      [] name = "analyze_structure" -> Returned(AnalyzeStructure(cs, lb))
      [] name = "detect_bos_mss" -> Returned(DetectBosMss(cs, lb))
      [] name = "get_all_pois" -> GetAllPois(cs)
      [] name = "find_liquidity_pools" -> Returned(FindLiquidityPools(cs))
      [] name = "detect_sweeps" -> Returned(DetectSweeps(cs, FindLiquidityPools(cs)))
      [] name = "get_confirmations" -> Returned(GetConfirmations(cs, "NEUTRAL"))

\* Mutant of CallOnArray: the detector sorts the array it is given in place,
\* newest first, before it scans it.
CallSortingInPlace(name, cs, lb, earlier) ==
    [candles |-> SortByTimestampDesc(cs),
     outcome |-> Detect(name, SortByTimestampDesc(cs), lb)]

\* A call of a detector: every method builds its result in local lists from
\* candles and self.lookback / self.config; none assigns to the array, to a
\* candle or to a field of self, and none reads what earlier calls returned.
CallOnArray(name, cs, lb, earlier) ==
    [candles |-> cs, outcome |-> Detect(name, cs, lb)]

CallAgain(name) ==
    /\ pc \in {"input", name}
    /\ pc = name => Len(returned.outcomes) < MaxCalls
    /\ LET earlier == IF pc = "input" THEN <<>> ELSE returned.outcomes
           given == IF pc = "input" THEN candles ELSE returned.given
           call == CallOnArray(name, candles, lookback, earlier)
       IN /\ candles' = call.candles
          /\ returned' = [given |-> given,
                          outcomes |-> Append(earlier, call.outcome)]
    /\ pc' = name
    /\ UNCHANGED <<lookback, step, newest_first, swings, structure, events, bias,
                   pools, sweeps>>
    /\ UNCHANGED <<engine, tasks>>

InitTwice ==
    /\ enabled = FALSE
    /\ lookback \in Lookbacks
    /\ step = STEP_30M
    /\ newest_first = FALSE
    /\ InitOutputs

NextTwice ==
    \/ \E tape \in Tapes : AppendFromTape(tape)
    \/ \E b \in ConfBars : AppendBar(b, MaxConfCandles)
    \/ \E name \in DetectorNames : CallAgain(name)

SpecTwice == InitTwice /\ [][NextTwice]_vars

\* C18: a detector called twice on the identical candle array returns
\* identical results both times, and the array is unchanged after each
\* call.
C18_SameResultSameArray ==
    pc \in DetectorNames =>
        /\ candles = returned.given
        /\ \A k \in DOMAIN returned.outcomes :
               returned.outcomes[k] = returned.outcomes[1]

\* detect_sweeps was called twice on a history with a sweep.
C18_Witness ==
    /\ pc = "detect_sweeps"
    /\ Len(returned.outcomes) = MaxCalls
    /\ returned.outcomes[1].value # <<>>
    /\ returned.outcomes[2] = returned.outcomes[1]
    /\ candles = returned.given

(***************************************************************************)
(* SpecSweepPoi: check_sweep_into_poi on the sweeps that detect_sweeps     *)
(* returned, as _find_relevant_sweep calls it.                             *)
(***************************************************************************)
\* (poi.zone_high + poi.zone_low) / 2 of a POI near the pools, of one near
\* some of them and of one far from them.
PoiPrices == {Ratio(22035, 2), Ratio(21950, 2), Ratio(24000, 2)}

CallCheckSweepIntoPoi(poi_price) ==
    /\ pc = "detect_sweeps"
    /\ pc' = "check_sweep_into_poi"
    /\ returned' = [given |-> sweeps, poi_price |-> poi_price,
                    sweep |-> CheckSweepIntoPoi(candles, sweeps, poi_price,
                                                POI_PROXIMITY_CANDLES)]
    /\ sweeps' = SweepsAfterCheck(candles, sweeps, poi_price, POI_PROXIMITY_CANDLES)
    /\ UNCHANGED <<feed, swings, structure, events, bias, pools>>
    /\ UNCHANGED <<engine, tasks>>

NextSweepPoi ==
    \/ \E seg \in Segments : AppendSegment(seg)
    \/ CallFindLiquidityPools
    \/ CallDetectSweeps
    \/ \E poi_price \in PoiPrices : CallCheckSweepIntoPoi(poi_price)

SpecSweepPoi == InitLiq /\ [][NextSweepPoi]_vars

\* C19 as stated: the LiquiditySweep objects in the list passed to
\* check_sweep_into_poi have the same field values after the call as before,
\* a match found or not.
C19_SweepsUnchanged ==
    pc = "check_sweep_into_poi" => sweeps = returned.given

\* What the call does to the list: without a match it is left as it was;
\* with one, the matching sweep alone has changed, in proximity_to_poi, and
\* it is the object returned.
C19_OnlyTheMatchIsWritten ==
    pc = "check_sweep_into_poi" =>
        /\ Len(sweeps) = Len(returned.given)
        /\ returned.sweep = None => sweeps = returned.given
        /\ returned.sweep # None =>
              \E k \in DOMAIN sweeps :
                  /\ sweeps[k] = returned.sweep
                  /\ returned.given[k].proximity_to_poi = None
                  /\ sweeps[k].proximity_to_poi # None
                  /\ sweeps[k] = [returned.given[k] EXCEPT !.proximity_to_poi =
                                      returned.sweep.proximity_to_poi]
                  /\ \A n \in DOMAIN sweeps : n # k => sweeps[n] = returned.given[n]

\* A call without a match on a list of sweeps.
C19_NoMatch ==
    /\ pc = "check_sweep_into_poi"
    /\ returned.given # <<>>
    /\ returned.sweep = None

(***************************************************************************)
(* SpecTasks: two analyze_symbol calls on one SignalEngine, for different  *)
(* symbols, interleaved at their awaits.  A call's frame holds its         *)
(* arguments and locals; the engine object holds what __init__ set.  A     *)
(* resumed call is handed every frame, so that a read of the other call's  *)
(* data is expressible.                                                    *)
(***************************************************************************)
\* The symbols of the two calls.
Symbols == <<"EURUSD", "GBPUSD">>

\* The frame of a call at its entry (line 70).
Frame(symbol) ==
    [symbol |-> symbol, stage |-> "fetch_4h", candles_4h |-> Unbound,
     candles_30m |-> Unbound, candles_5m |-> Unbound, locals |-> Unbound,
     result |-> None, given |-> <<>>]

\* The except clause, in a frame.
FrameFailed(f, outcome) == [f EXCEPT !.stage = "returned", !.result = Except(outcome)]

\* Mutant of Resume: the 4H candles are kept on the engine object, that is,
\* every call reads the list the first call fetched once it is there.
ResumeWithCandlesOnSelf(frames, k, is_enabled, outcome) ==
    LET f == frames[k]
        c4h == IF frames[1].candles_4h # Unbound THEN frames[1].candles_4h
               ELSE f.candles_4h
    IN IF outcome.raised /\ f.stage # "verify_signal" THEN FrameFailed(f, outcome)
       ELSE IF f.stage = "fetch_4h"
       THEN [f EXCEPT !.candles_4h = outcome.value, !.stage = "fetch_30m"]
       ELSE IF f.stage = "fetch_30m"
       THEN [f EXCEPT !.candles_30m = outcome.value, !.stage = "fetch_5m"]
       ELSE IF f.stage = "fetch_5m"
       THEN LET analysed == Analyze(c4h, f.candles_30m, outcome.value)
            IN IF analysed.raised
               THEN FrameFailed([f EXCEPT !.candles_5m = outcome.value], analysed)
               ELSE [f EXCEPT !.candles_5m = outcome.value,
                              !.locals = analysed.value, !.stage = "verify_signal"]
       ELSE [f EXCEPT !.stage = "returned",
                      !.result = Except(Conclude(f.locals, is_enabled, outcome))]

\* Call k runs from the await it is suspended at to its next await or to its
\* return, on the outcome of the awaited call: analyze_symbol reads and
\* assigns its own locals and reads self.*, which only __init__ assigns.
Resume(frames, k, is_enabled, outcome) ==
    LET f == frames[k]
    IN IF outcome.raised /\ f.stage # "verify_signal" THEN FrameFailed(f, outcome)
       ELSE IF f.stage = "fetch_4h"
       THEN [f EXCEPT !.candles_4h = outcome.value, !.stage = "fetch_30m"]
       ELSE IF f.stage = "fetch_30m"
       THEN [f EXCEPT !.candles_30m = outcome.value, !.stage = "fetch_5m"]
       ELSE IF f.stage = "fetch_5m"
       THEN LET analysed == Analyze(f.candles_4h, f.candles_30m, outcome.value)
            IN IF analysed.raised
               THEN FrameFailed([f EXCEPT !.candles_5m = outcome.value], analysed)
               ELSE [f EXCEPT !.candles_5m = outcome.value,
                              !.locals = analysed.value, !.stage = "verify_signal"]
       ELSE [f EXCEPT !.stage = "returned",
                      !.result = Except(Conclude(f.locals, is_enabled, outcome))]

\* What the awaited call of a stage can give (a part of the engine's menus).
Awaited(at) ==
    CASE at = "fetch_4h" ->
           {Returned(PyList(Feed(<<BullishA, BullishA, BullishA, BearishA, BullishA>>,
                                 STEP_4H, FALSE))),
            Returned(PyList(Feed(<<BullishA>>, STEP_4H, FALSE)))}
      [] at = "fetch_30m" ->
           {Returned(PyList(Feed(<<BullishA, BearishA>>, STEP_30M, FALSE))),
            Raised("DataProviderError", "OANDA API error: 503")}
      [] at = "fetch_5m" ->
           {Returned(PyList(Feed(<<BearishB, BullishA>>, STEP_5M, FALSE))),
            Returned(PyList(<<>>))}
      [] at = "verify_signal" ->
           {Returned(PlaceholderReply),
            Returned([decision |-> "SELL", confidence |-> 90, reasons |-> Reasons("AI"),
                      missing_conditions |-> <<>>, risk_notes |-> "AI"]),
            Raised("TimeoutError", "request timed out")}

\* The awaited call of task k completes and the event loop resumes the task.
\* returned keeps the order in which the tasks were resumed.
ResumeTask(k, outcome) ==
    /\ tasks[k].stage # "returned"
    /\ outcome \in Awaited(tasks[k].stage)
    /\ tasks' = [tasks EXCEPT ![k] =
                    [Resume(tasks, k, enabled, outcome) EXCEPT
                        !.given = Append(tasks[k].given, outcome)]]
    /\ returned' = [order |-> (IF returned = None THEN <<>> ELSE returned.order)
                              \o <<k>>]
    /\ UNCHANGED <<detectors, engine>>

InitTasks ==
    /\ lookback = SWING_LOOKBACK
    /\ step = STEP_30M
    /\ newest_first = FALSE
    /\ candles = <<>>
    /\ pc = "input"
    /\ swings = <<>>
    /\ structure = NoStructure
    /\ events = <<>>
    /\ bias = <<"none", None>>
    /\ pools = <<>>
    /\ sweeps = <<>>
    /\ InitEngine
    /\ enabled \in BOOLEAN
    /\ returned = None
    /\ tasks = [k \in DOMAIN Symbols |-> Frame(Symbols[k])]

NextTasks ==
    \E k \in DOMAIN Symbols :
        \E outcome \in UNION {Awaited(at) : at \in {"fetch_4h", "fetch_30m", "fetch_5m",
                                                    "verify_signal"}} :
            ResumeTask(k, outcome)

SpecTasks == InitTasks /\ [][NextTasks]_vars

\* The frame of a call that runs alone and is given the outcomes `given`.
RECURSIVE RunAlone(_, _, _)
RunAlone(f, is_enabled, given) ==
    IF given = <<>> THEN f
    ELSE RunAlone(Resume(<<f>>, 1, is_enabled, Head(given)), is_enabled, Tail(given))

\* C20: two analyze_symbol calls on the same engine, interleaved in any
\* order at their awaits, each return the result they return when run alone
\* on the same fetched candles and verifier reply, and at every await each
\* holds the locals it holds when run alone.
C20_Isolation ==
    \A k \in DOMAIN tasks :
        LET alone == RunAlone(Frame(tasks[k].symbol), enabled, tasks[k].given)
        IN /\ tasks[k].stage = alone.stage
           /\ tasks[k].result = alone.result
           /\ tasks[k].candles_4h = alone.candles_4h
           /\ tasks[k].candles_30m = alone.candles_30m
           /\ tasks[k].candles_5m = alone.candles_5m
           /\ tasks[k].locals = alone.locals

\* Both calls returned, the second having fetched its 4H candles between the
\* fetches of the first: a BUY for one, the error result for the other.
C20_Witness ==
    /\ \A k \in DOMAIN tasks : tasks[k].stage = "returned"
    /\ SubSeq(returned.order, 1, 3) = <<1, 2, 1>>
    /\ tasks[1].candles_4h # tasks[2].candles_4h
    /\ tasks[1].result.value.decision = "BUY"
    /\ tasks[2].result.value.bias = "ERROR"
    /\ tasks[2].locals = Unbound

(***************************************************************************)
(* Sweeps per pool (SpecLiq)                                               *)
(***************************************************************************)
\* C21 as stated: detect_sweeps records at most one LiquiditySweep per pool,
\* the first qualifying (pierce, rejection) pair after the pool's latest
\* touch: before the cap of 10 the sweeps are no more than the pools, and no
\* two sweeps stem from the same pool.
C21_OneSweepPerPool ==
    pc = "detect_sweeps" =>
        /\ Len(SweepsFrom(candles, pools, 1)) <= Len(pools)
        /\ \A m, n \in DOMAIN sweeps :
               sweeps[m].pool_index = sweeps[n].pool_index => m = n

\* What the code records: one sweep for every candle after the pool's
\* latest touch that pierces the level and has a rejection within its
\* lookahead, so that two sweeps of one pool differ in their piercing candle.
C21_OneSweepPerPiercingCandle ==
    pc = "detect_sweeps" =>
        \A m, n \in DOMAIN sweeps :
            (/\ sweeps[m].pool_index = sweeps[n].pool_index
             /\ sweeps[m].pierce_index = sweeps[n].pierce_index) => m = n

\* Two sweeps of one pool with the same rejection candle.
C21_TwoSweepsOfOnePool ==
    /\ pc = "detect_sweeps"
    /\ \E m, n \in DOMAIN sweeps :
          /\ m # n
          /\ sweeps[m].pool_index = sweeps[n].pool_index
          /\ sweeps[m].candle_index = sweeps[n].candle_index

(***************************************************************************)
(* SpecBreaks: detect_bos_mss on a 4H history whose last swing high lies   *)
(* below its last swing low, and on the 30M histories of SpecShort.        *)
(***************************************************************************)
\* A falling history: a swing low at 1.0980 (index 3), later a swing high
\* at 1.0950 (index 16), and a last candle that closes at 1.0970.
FallingThenBounce ==
    <<
      Bar(11000, 11025, 10995, 11020), Bar(11020, 11030, 11000, 11010), Bar(11010, 11015, 11010, 11010),
      Bar(11010, 11015, 10980, 10990), Bar(10990, 11000, 10985, 11000), Bar(11000, 11015, 11000, 11010),
      Bar(11010, 11020, 11005, 11010), Bar(11010, 11015, 10995, 11000), Bar(11000, 11010, 10970, 10970),
      Bar(10970, 10970, 10940, 10940), Bar(10940, 10945, 10915, 10920), Bar(10920, 10940, 10920, 10930),
      Bar(10930, 10935, 10905, 10910), Bar(10910, 10915, 10890, 10900), Bar(10900, 10935, 10890, 10930),
      Bar(10930, 10940, 10930, 10940), Bar(10940, 10950, 10925, 10930), Bar(10930, 10930, 10910, 10920),
      Bar(10920, 10925, 10915, 10920), Bar(10920, 10920, 10920, 10920), Bar(10920, 10950, 10910, 10950),
      Bar(10950, 10980, 10950, 10970) >>

BreakHistories ==
    Tapes \cup {Feed(<<FallingThenBounce>>, STEP_4H, FALSE)}

InitBreaks ==
    /\ enabled = FALSE
    /\ lookback \in Lookbacks
    /\ step = STEP_4H
    /\ newest_first = FALSE
    /\ InitOutputs

NextBreaks ==
    \/ \E tape \in BreakHistories : AppendFromTape(tape)
    \/ CallAnalyzeStructure
    \/ CallDetectBosMss

SpecBreaks == InitBreaks /\ [][NextBreaks]_vars

\* C22 as stated: detect_bos_mss records at most one structural event for a
\* candle; no candle produces both a BOS_UP and a BOS_DOWN, also when the
\* trend is sideways.
C22_OneEventPerCandle ==
    pc = "detect_bos_mss" =>
        \A m, n \in DOMAIN events :
            events[m].candle_index = events[n].candle_index => m = n

\* What the code excludes: two events of one candle are a BOS_UP and a
\* BOS_DOWN of a sideways structure whose last swing high is below its last
\* swing low; a BOS and an MSS never share a candle.
C22_OnlyOpposedBosShareACandle ==
    pc = "detect_bos_mss" =>
        \A m, n \in DOMAIN events :
            (m # n /\ events[m].candle_index = events[n].candle_index) =>
                LET st == AnalyzeStructure(candles, lookback)
                IN /\ {events[m].event_type, events[n].event_type}
                          = {"BOS_UP", "BOS_DOWN"}
                   /\ st.trend = "sideways"
                   /\ st.last_swing_high.price < st.last_swing_low.price

\* The last candle of the falling history carries a BOS_UP and a BOS_DOWN.
C22_BothBosOnOneCandle ==
    /\ pc = "detect_bos_mss"
    /\ \E m, n \in DOMAIN events :
          /\ events[m].candle_index = events[n].candle_index
          /\ events[m].event_type = "BOS_UP"
          /\ events[n].event_type = "BOS_DOWN"

(***************************************************************************)
(* SpecBestPoi: _find_best_poi on the list get_all_pois returns, for each  *)
(* bias (lines 88-89 of analyze_symbol).                                   *)
(***************************************************************************)
CallFindBestPoi(bias_4h) ==
    /\ pc = "input"
    /\ ~GetAllPois(candles).raised
    /\ pc' = "find_best_poi"
    /\ \E pois_30m \in {GetAllPois(candles).value} :
          returned' = [pois |-> pois_30m, bias |-> bias_4h,
                       best |-> FindBestPoi(pois_30m, bias_4h)]
    /\ UNCHANGED <<feed, swings, structure, events, bias, pools, sweeps>>
    /\ UNCHANGED <<engine, tasks>>

NextBestPoi ==
    \/ \E seg \in Segments : AppendSegment(seg)
    \/ \E bias_4h \in Biases : CallFindBestPoi(bias_4h)

SpecBestPoi == InitLiq /\ [][NextBestPoi]_vars

\* The positions of the OB and FVG entries whose direction matches the bias.
AlignedAt(ps, b) ==
    {k \in DOMAIN ps :
        /\ ps[k].poi_type \in {"OB", "FVG"}
        /\ \/ b = "LONG" /\ ps[k].is_bullish
           \/ b = "SHORT" /\ ~ps[k].is_bullish}

\* C23: _find_best_poi returns None iff the list is empty; with an OB or FVG
\* matching the bias in the list it returns the earliest of those of
\* maximal strength; otherwise, also for NEUTRAL, it returns the first
\* element, the most recent POI.
C23_BestPoi ==
    pc = "find_best_poi" =>
        LET ps == returned.pois
            aligned == AlignedAt(ps, returned.bias)
        IN /\ returned.best = None <=> ps = <<>>
           /\ aligned # {} =>
                 \E k \in aligned :
                     /\ returned.best = ps[k]
                     /\ \A n \in aligned :
                            /\ ~RatioGreater(ps[n].strength, ps[k].strength)
                            /\ n < k => RatioGreater(ps[k].strength, ps[n].strength)
           /\ (aligned = {} /\ ps # <<>>) =>
                 /\ returned.best = ps[1]
                 /\ \A n \in DOMAIN ps : ps[n].timestamp <= ps[1].timestamp

\* The strongest aligned POI is not the first aligned one, and another
\* aligned POI further down the list is as strong.
C23_Witness ==
    /\ pc = "find_best_poi"
    /\ \E k, n, t \in AlignedAt(returned.pois, returned.bias) :
          /\ n < k
          /\ k < t
          /\ returned.best = returned.pois[k]
          /\ RatioGreater(returned.pois[k].strength, returned.pois[n].strength)
          /\ returned.pois[t].strength = returned.pois[k].strength

\* No POI matches the bias: the first element, of the other direction.
C23_FallbackWitness ==
    /\ pc = "find_best_poi"
    /\ returned.bias = "LONG"
    /\ returned.pois # <<>>
    /\ AlignedAt(returned.pois, "LONG") = {}
    /\ returned.best = returned.pois[1]
    /\ ~returned.best.is_bullish

(***************************************************************************)
(* The sweep check_sweep_into_poi returns (SpecSweepPoi)                   *)
(***************************************************************************)
\* abs(sweep.pool_price - poi_price)
PriceDistance(s, poi_price) ==
    Ratio(Abs(s.pool_price * poi_price.den - poi_price.num), poi_price.den)

\* The sweep is within 10 x LIQUIDITY_TOLERANCE of the price and its
\* rejection candle is one of the first max_candles_away + 1 of the list.
Qualifies(s, poi_price) ==
    /\ PriceDistance(s, poi_price).num
           <= LIQUIDITY_TOLERANCE * PROXIMITY_FACTOR * poi_price.den
    /\ s.candle_index <= POI_PROXIMITY_CANDLES
    /\ At(candles, s.candle_index).timestamp = s.timestamp

\* C24: check_sweep_into_poi returns the first sweep in list order that
\* qualifies, with proximity_to_poi equal to its price distance, and None
\* iff no sweep of the list qualifies.
C24_FirstQualifyingSweep ==
    pc = "check_sweep_into_poi" =>
        LET given == returned.given
            hits == {k \in DOMAIN given : Qualifies(given[k], returned.poi_price)}
        IN /\ returned.sweep = None <=> hits = {}
           /\ hits # {} =>
                 \E k \in hits :
                     /\ \A n \in hits : k <= n
                     /\ returned.sweep =
                            [given[k] EXCEPT !.proximity_to_poi =
                                PriceDistance(given[k], returned.poi_price)]

\* The sweep returned is not the first of the list: a sweep before it is
\* too far from the price, another too far down the candles.
C24_Witness ==
    /\ pc = "check_sweep_into_poi"
    /\ returned.sweep # None
    /\ \E k, m, n \in DOMAIN returned.given :
          /\ m < k
          /\ n < k
          /\ returned.sweep.candle_index = returned.given[k].candle_index
          /\ returned.sweep.pool_index = returned.given[k].pool_index
          /\ returned.sweep.pierce_index = returned.given[k].pierce_index
          /\ returned.given[m].candle_index > POI_PROXIMITY_CANDLES
          /\ RatioGt(PriceDistance(returned.given[n], returned.poi_price),
                     LIQUIDITY_TOLERANCE * PROXIMITY_FACTOR, 1)

(***************************************************************************)
(* The equal-level pools of find_liquidity_pools (SpecLiq)                 *)
(***************************************************************************)
EqualTypes == {"EQUAL_HIGHS", "EQUAL_LOWS"}

\* candle.high for a pool of highs, candle.low for a pool of lows.
TouchedPrice(cs, type, i) ==
    IF type = "EQUAL_HIGHS" THEN At(cs, i).high ELSE At(cs, i).low

\* The candle indices of a pool's touches.
TouchIndices(p) == {p.touches[k][2] : k \in DOMAIN p.touches}

\* C25: every EQUAL_HIGHS / EQUAL_LOWS pool has at least 2 touches, strength
\* equal to their number and every touched high (low) within the tolerance
\* of its price level; a candle index is in the touches of at most one pool
\* of each EQUAL type, and two pools of one EQUAL type have levels more than
\* the tolerance apart.
C25_EqualLevelPools ==
    pc \in {"find_liquidity_pools", "detect_sweeps"} =>
        \A m \in DOMAIN pools :
            pools[m].pool_type \in EqualTypes =>
                /\ Len(pools[m].touches) >= 2
                /\ pools[m].strength = Len(pools[m].touches)
                /\ \A k \in DOMAIN pools[m].touches :
                      /\ pools[m].touches[k][2] \in Indices(candles)
                      /\ pools[m].touches[k][1]
                             = At(candles, pools[m].touches[k][2]).timestamp
                      /\ Abs(TouchedPrice(candles, pools[m].pool_type,
                                          pools[m].touches[k][2])
                             - pools[m].price_level) <= LIQUIDITY_TOLERANCE
                /\ \A n \in DOMAIN pools :
                      (n # m /\ pools[n].pool_type = pools[m].pool_type) =>
                          /\ TouchIndices(pools[n]) \cap TouchIndices(pools[m]) = {}
                          /\ Abs(pools[n].price_level - pools[m].price_level)
                                 > LIQUIDITY_TOLERANCE

\* Two pools of equal highs, and a touch of the first whose high is within
\* the tolerance of the second pool's level as well.
C25_Witness ==
    /\ pc = "find_liquidity_pools"
    /\ \E m, n \in DOMAIN pools :
          /\ m < n
          /\ pools[m].pool_type = "EQUAL_HIGHS"
          /\ pools[n].pool_type = "EQUAL_HIGHS"
          /\ \E i \in TouchIndices(pools[m]) :
                Abs(At(candles, i).high - pools[n].price_level)
                    <= LIQUIDITY_TOLERANCE

(***************************************************************************)
(* The shape of detect_bos_mss's result (SpecStruct)                       *)
(***************************************************************************)
\* The events measured against the last swing high / the last swing low.
HighLevelEvents == {"BOS_UP", "MSS_DOWN"}

\* The swing whose price is the event's swing_level.
SwingOfEvent(st, e) ==
    IF e.event_type \in HighLevelEvents THEN st.last_swing_high
    ELSE st.last_swing_low

\* C26: detect_bos_mss returns at most 5 events, newest first by timestamp;
\* every event has candle_index >= 10 and after the candle of the swing
\* whose price is its swing_level; the price of a BOS_UP / MSS_UP is above
\* its swing_level, that of a BOS_DOWN / MSS_DOWN below it.
C26_EventShape ==
    pc = "detect_bos_mss" =>
        \E st \in {AnalyzeStructure(candles, lookback)} :
            /\ Len(events) <= MAX_EVENTS
            /\ \A k \in DOMAIN events :
                  /\ k > 1 => events[k - 1].timestamp >= events[k].timestamp
                  /\ events[k].candle_index >= SKIP_CANDLES
                  /\ SwingOfEvent(st, events[k]) # None
                  /\ events[k].swing_level = SwingOfEvent(st, events[k]).price
                  /\ events[k].candle_index
                         > SwingOfEvent(st, events[k]).candle_index
                  /\ events[k].event_type \in LongEvents
                         => events[k].price > events[k].swing_level
                  /\ events[k].event_type \in ShortEvents
                         => events[k].price < events[k].swing_level

\* Five events are returned, of a BOS and of an MSS type, and the two loops
\* recorded more than five before the cap.
C26_Witness ==
    /\ pc = "detect_bos_mss"
    /\ Len(events) = MAX_EVENTS
    /\ \E m, n \in DOMAIN events :
          /\ events[m].event_type \in {"BOS_UP", "BOS_DOWN"}
          /\ events[n].event_type \in {"MSS_UP", "MSS_DOWN"}
    /\ Len(AllBosMss(candles, lookback)) > MAX_EVENTS

(***************************************************************************)
(* SpecStar: the two star scanners on 5M feeds of up to MaxStarCandles     *)
(* candles without wicks, opening and closing at one of four prices.       *)
(***************************************************************************)
MaxStarCandles == 3

StarPrices == {11000, 11004, 11012, 11030}

\* OHLC candles: the high is the greater of open and close, the low the
\* smaller.
StarBars == {Bar(o, Max(o, c), Min(o, c), c) : o, c \in StarPrices}

CallDetectMorningStar ==
    CallDetector("detect_morning_star", PyList(DetectMorningStar(candles)))

CallDetectEveningStar ==
    CallDetector("detect_evening_star", PyList(DetectEveningStar(candles)))

InitStar ==
    /\ enabled = FALSE
    /\ lookback = SWING_LOOKBACK
    /\ step = STEP_5M
    /\ newest_first \in BOOLEAN
    /\ InitOutputs

NextStar ==
    \/ \E b \in StarBars : AppendBar(b, MaxStarCandles)
    \/ CallDetectMorningStar
    \/ CallDetectEveningStar

SpecStar == InitStar /\ [][NextStar]_vars

StarCalls == {"detect_morning_star", "detect_evening_star"}

\* C27: every MORNING_STAR and EVENING_STAR pattern has a confidence in the
\* closed interval [0, 1].
C27_StarConfidenceRange ==
    pc \in StarCalls =>
        \A k \in DOMAIN returned.items :
            /\ returned.items[k].pattern_type \in {"MORNING_STAR", "EVENING_STAR"}
            /\ returned.items[k].confidence.den > 0
            /\ returned.items[k].confidence.num >= 0
            /\ returned.items[k].confidence.num <= returned.items[k].confidence.den

\* A star whose third body is large enough for the product to exceed 1:
\* its confidence is the cap.
C27_Witness ==
    /\ pc \in StarCalls
    /\ \E k \in DOMAIN returned.items :
          /\ returned.items[k].confidence = ONE
          /\ \E i \in {returned.items[k].candle_index} :
                RatioGreater(StarConfidenceUncapped(At(candles, i - 2),
                                                    At(candles, i - 1),
                                                    At(candles, i)), ONE)

\* A star whose confidence lies strictly between 0 and 1.
C27_BelowOne ==
    /\ pc \in StarCalls
    /\ \E k \in DOMAIN returned.items :
          /\ returned.items[k].confidence.num > 0
          /\ returned.items[k].confidence.num < returned.items[k].confidence.den

(***************************************************************************)
(* SpecBreakers: detect_breakers on the order blocks of 30M feeds of up to *)
(* MaxSegments blocks.                                                     *)
(***************************************************************************)
\* order_blocks = self.detect_order_blocks(candles);
\* breakers = self.detect_breakers(candles, order_blocks)
CallDetectBreakers ==
    /\ ~DetectOrderBlocks(candles).raised
    /\ \E order_blocks \in {DetectOrderBlocks(candles).value} :
          CallDetector("detect_breakers",
                       [order_blocks |-> order_blocks,
                        breakers |-> DetectBreakers(candles, order_blocks)])

NextBreakers ==
    \/ \E seg \in Segments : AppendSegment(seg)
    \/ CallDetectBreakers

SpecBreakers == InitLiq /\ [][NextBreakers]_vars

\* The breakers detect_breakers appends for one order block.
BreakersOf(ob) == BreakersOfBlock(candles, ob, ob.candle_index + 1)

\* C28: detect_breakers emits at most one breaker per order block, so the
\* breakers never outnumber the order blocks and no retest candle is
\* reported twice for one order block; each breaker's candle is after the
\* invalidating candle and at most 20 candles after it.
C28_OneBreakerPerBlock ==
    pc = "detect_breakers" =>
        /\ Len(returned.breakers) <= Len(returned.order_blocks)
        /\ \A k \in DOMAIN returned.order_blocks :
              Len(BreakersOf(returned.order_blocks[k])) <= 1

\* What the code does: one breaker per invalidating candle that has a
\* retest among the 19 candles after it, placed at the first such retest.
C28_OneBreakerPerInvalidation ==
    pc = "detect_breakers" =>
        \A k \in DOMAIN returned.order_blocks :
            \E ob \in {returned.order_blocks[k]} :
                /\ Len(BreakersOf(ob))
                       <= Cardinality({i \in Indices(candles) :
                                          /\ i > ob.candle_index
                                          /\ Invalidates(ob, At(candles, i))})
                /\ \A n \in DOMAIN BreakersOf(ob) :
                      \E i \in Indices(candles) :
                          /\ i > ob.candle_index
                          /\ Invalidates(ob, At(candles, i))
                          /\ BreakersOf(ob)[n].candle_index > i
                          /\ BreakersOf(ob)[n].candle_index < i + RETEST_LOOKAHEAD
                          /\ Retests(ob, At(candles, BreakersOf(ob)[n].candle_index))

\* More breakers than order blocks, two of them at the same retest candle of
\* the same order block.
C28_OneRetestReportedTwice ==
    /\ pc = "detect_breakers"
    /\ Len(returned.breakers) > Len(returned.order_blocks)
    /\ \E k \in DOMAIN returned.order_blocks :
          \E m, n \in DOMAIN BreakersOf(returned.order_blocks[k]) :
              /\ m # n
              /\ BreakersOf(returned.order_blocks[k])[m].candle_index
                     = BreakersOf(returned.order_blocks[k])[n].candle_index

(***************************************************************************)
(* Risk and POI type of the trades analyze_symbol returns (SpecEngine)     *)
(***************************************************************************)
\* Twice the entry midpoint of a result, in units of 0.00001: the sum of
\* the two ends of its entry_zone.
TwiceEntryMid(r) == r.entry_zone.value[1] + r.entry_zone.value[2]

\* invalidation < entry midpoint < target2
BuySide(r) ==
    /\ 2 * r.invalidation_level.value < TwiceEntryMid(r)
    /\ TwiceEntryMid(r) < 2 * r.target2.value

\* target2 < entry midpoint < invalidation
SellSide(r) ==
    /\ 2 * r.target2.value < TwiceEntryMid(r)
    /\ TwiceEntryMid(r) < 2 * r.invalidation_level.value

\* C29 as stated: for every result with decision BUY, invalidation < entry
\* midpoint < target2, and for every result with decision SELL, target2 <
\* entry midpoint < invalidation; the risk is never zero, order blocks built
\* from a candle whose open equals its close included.
C29_PositiveRisk ==
    (stage = "returned" /\ ~result.raised) =>
        /\ result.value.decision = "BUY" => BuySide(result.value)
        /\ result.value.decision = "SELL" => SellSide(result.value)

\* What the code does: the order holds for the deterministic decisions
\* taken at a zone of positive height, and at a zone of zero height the
\* three levels coincide.
C29_RiskIsHalfTheZoneHeight ==
    (/\ stage = "returned"
     /\ ~result.raised
     /\ result.value.decision \in {"BUY", "SELL"}
     /\ locals # Unbound
     /\ result.value.decision = locals.deterministic_decision) =>
        IF locals.best_poi.zone_high > locals.best_poi.zone_low
        THEN /\ result.value.decision = "BUY" => BuySide(result.value)
             /\ result.value.decision = "SELL" => SellSide(result.value)
        ELSE /\ 2 * result.value.invalidation_level.value
                    = TwiceEntryMid(result.value)
             /\ 2 * result.value.target2.value = TwiceEntryMid(result.value)

\* A deterministic SELL at an order block of zero height: invalidation,
\* entry midpoint and target2 are one price.
C29_ZeroRiskSell ==
    /\ Verified
    /\ ~result.raised
    /\ result.value.decision = "SELL"
    /\ result.value.decision = locals.deterministic_decision
    /\ locals.best_poi.poi_type = "OB"
    /\ locals.best_poi.zone_high = locals.best_poi.zone_low
    /\ result.value.invalidation_level = result.value.target2

\* C30 as stated: verifier enabled or disabled, a result with decision BUY
\* or SELL has poi_type OB or FVG; a rejection block or breaker chosen by
\* the most-recent-POI fallback never leads to BUY or SELL.
C30_TradeNeedsObOrFvg ==
    (stage = "returned" /\ ~result.raised) =>
        (result.value.decision \in {"BUY", "SELL"} =>
            result.value.poi_type \in {Some("OB"), Some("FVG")})

\* What the code does: the POI type is tested on the verifier's reply only.
C30_CheckedOnVerifierReplyOnly ==
    (/\ stage = "returned"
     /\ ~result.raised
     /\ enabled
     /\ thrown = {}) =>
        (result.value.decision \in {"BUY", "SELL"} =>
            result.value.poi_type \in {Some("OB"), Some("FVG")})

\* A BUY at a rejection block that the fallback chose, verifier disabled.
C30_BuyAtRejectionBlock ==
    /\ Verified
    /\ ~result.raised
    /\ ~enabled
    /\ result.value.decision = "BUY"
    /\ result.value.poi_type = Some("RB")
    /\ AlignedAt(GetAllPois(candles_30m.items).value, locals.bias_4h) = {}

=============================================================================
